---- MODULE Spec2Model ----
(***************************************************************************)
(* tende-api: ingredient / formula stores and the search endpoints of      *)
(* src/tende/main.py, modelled as a state machine over the two database    *)
(* tables and the last HTTP exchange.  One action per route handler (or    *)
(* repository method); each action is the whole handler, from parameter    *)
(* parsing to the response that the exception handlers produce.            *)
(*                                                                         *)
(* Text values are sequences of one-character strings.  Identifiers made   *)
(* by uuid4() are consecutive naturals (never reused); the identifier 0 is *)
(* a well-formed UUID that the server never issued.                        *)
(***************************************************************************)
EXTENDS Integers, Sequences, FiniteSets, TLC

VARIABLES ingredients, formulas, issuedIngredients, issuedFormulas,
          request, response, queries,
          invoices, files, issuedUuids, workers

\* the tables of the catalogue and the statements run on them
table_vars == <<ingredients, formulas, issuedIngredients, issuedFormulas, queries>>

\* the catalogue (ingredients, formulas, search) and its HTTP exchange
catalogue_vars == <<ingredients, formulas, issuedIngredients, issuedFormulas,
                    request, response, queries>>

\* the invoices table, the upload directory and the calls in flight on them
invoice_vars == <<invoices, files, issuedUuids, workers>>

vars == <<ingredients, formulas, issuedIngredients, issuedFormulas,
          request, response, queries,
          invoices, files, issuedUuids, workers>>

(***************************************************************************)
(* Bounds of the model.                                                    *)
(***************************************************************************)
MaxIngredients == 2
MaxFormulas == 2
MaxPage == 2
MaxSize == 2
MaxInvoices == 2
MaxWorkers == 2
MaxErrorIds == 4

(***************************************************************************)
(* Text literals used as inputs.                                           *)
(***************************************************************************)
T_empty == << >>
T_oil == <<"o","i","l">>
T_oil_padded == <<" ","o","i","l"," ">>
T_wax == <<"w","a","x">>
T_ml == <<"m","l">>
T_ml_padded == <<"m","l"," ">>
T_g == <<"g">>
T_tea == <<"T","e","a">>
T_mint_tea == <<"M","i","n","t"," ","t","e","a">>
T_chamomlie_tea == <<"C","h","a","m","o","m","l","i","e"," ","T","e","a">>
T_chamomile == <<"c","h","a","m","o","m","i","l","e">>
T_zzz == <<"z","z","z">>

\* SQL NULL / Python None for a text column: a value that is no text
NULL == <<"NULL">>
UnissuedId == 0

IngredientIds == 1..MaxIngredients
FormulaIds == 1..MaxFormulas

(***************************************************************************)
(* Python / SQL string primitives.                                         *)
(***************************************************************************)
IsSpace(c) == c = " "

\* the text as it was submitted
strip_nothing(s) == s

RECURSIVE lstrip(_)
lstrip(s) == IF s # << >> /\ IsSpace(Head(s)) THEN lstrip(Tail(s)) ELSE s

RECURSIVE rstrip(_)
rstrip(s) == IF s # << >> /\ IsSpace(s[Len(s)])
             THEN rstrip(SubSeq(s, 1, Len(s) - 1)) ELSE s

strip(s) == rstrip(lstrip(s))

\* the upper-case letters that occur in the inputs
LowerChar(c) ==
  CASE c = "C" -> "c"
    [] c = "M" -> "m"
    [] c = "O" -> "o"
    [] c = "T" -> "t"
    [] OTHER -> c

lower(s) == [i \in 1..Len(s) |-> LowerChar(s[i])]

\* needle occurs in hay as a contiguous run (the empty needle always does)
Contains(hay, needle) ==
  \E i \in 0..(Len(hay) - Len(needle)) :
     SubSeq(hay, i + 1, i + Len(needle)) = needle

\* column ILIKE '%term%'
ILIKE(column, term) == Contains(lower(column), lower(term))


(***************************************************************************)
(* Request inputs.                                                         *)
(***************************************************************************)
IngredientNameInputs == {T_oil, T_oil_padded, T_wax, <<" ">>}
IngredientUnitInputs == {T_ml, T_ml_padded, <<" ">>}

\* relationships.ingredients.data: the list of entries a client sends, each
\* an ingredient id with its percentage
Entry(id, percentage) == [id |-> id, percentage |-> percentage]

Mapping_none == << >>
Mapping_one == <<Entry(1, 100)>>
Mapping_two == <<Entry(1, 60), Entry(2, 40)>>
Mapping_unissued == <<Entry(UnissuedId, 100)>>
Mapping_repeated == <<Entry(1, 60), Entry(1, 40)>>

EntryIds(entries) == {entries[i].id : i \in 1..Len(entries)}

\* the ids of the entries, without their percentages
ingredients_json_ids(entries) == [k \in EntryIds(entries) |-> 0]

\* {ingredient["id"]: ingredient["meta"]["percentage"] for ingredient in
\* ingredients_data}: a later entry replaces an earlier one with its id
ingredients_json(entries) ==
  [k \in EntryIds(entries) |->
     entries[CHOOSE i \in 1..Len(entries) :
               /\ entries[i].id = k
               /\ \A j \in (i + 1)..Len(entries) : entries[j].id # k].percentage]

FormulaPayload(name, description, mapping, mass) ==
  [name |-> name, description |-> description, ingredients |-> mapping,
   mass |-> mass]

\* the formula payloads clients send
FormulaInputs ==
  { FormulaPayload(T_chamomlie_tea, NULL, Mapping_one, 100),
    FormulaPayload(T_tea, T_chamomile, Mapping_two, 100),
    FormulaPayload(T_mint_tea, NULL, Mapping_none, 50),
    FormulaPayload(T_tea, NULL, Mapping_unissued, 100),
    FormulaPayload(T_mint_tea, NULL, Mapping_repeated, 50) }

\* identifiers a client can put in a path or a payload: the ones the server
\* has issued so far, and one it never issued
KnownIngredientIds == 0..issuedIngredients
KnownFormulaIds == 0..issuedFormulas

(***************************************************************************)
(* Responses.  A response is what the client receives: the status line,    *)
(* the single error entry (title, detail) for an error, and the envelope   *)
(* fields of a success.  Absent numbers are -1.                            *)
(***************************************************************************)
Absent == -1

Envelope(status, title, detail, data, has_included, included, total_count, page_count, deleted_count) ==
  [status |-> status, title |-> title, detail |-> detail, data |-> data,
   has_included |-> has_included, included |-> included,
   total_count |-> total_count, page_count |-> page_count,
   deleted_count |-> deleted_count]

ErrorResponse(status, title, detail) ==
  Envelope(status, title, detail, << >>, FALSE, {}, Absent, Absent, Absent)

\* a success whose body the properties do not read (entity echo, or 204)
Success(status) ==
  Envelope(status, "", "", << >>, FALSE, {}, Absent, Absent, Absent)

\* IngredientOut: the record a create or an update returns
IngredientOut(id, row) ==
  Envelope(200, "", "", <<[id |-> id, name |-> row.name, unit |-> row.unit]>>, FALSE, {}, Absent, Absent, Absent)

\* @app.exception_handler(HTTPException)
http_exception_handler(status_code, detail) ==
  ErrorResponse(status_code, "Error", detail)

\* @app.exception_handler(Exception)
general_exception_handler ==
  ErrorResponse(500, "Internal Server Error", "An unexpected error occurred")

\* FastAPI's answer to a body or parameter that fails validation
RequestValidationError ==
  ErrorResponse(422, "Unprocessable Entity", "validation error")

\* no HTTP exchange: a repository method called directly
NoResponse == Success(0)

IsSuccess(r) == r.status >= 200 /\ r.status < 300
IsClientError(r) == r.status >= 400 /\ r.status < 500

(***************************************************************************)
(* Exceptions.  The body of a handler either returns or raises; an         *)
(* outcome records which.  The except clauses of a handler rewrite the     *)
(* outcome, and what is still raised when the handler exits goes to the    *)
(* application's exception handlers.                                       *)
(***************************************************************************)
Raise(exc, status_code, detail) ==
  [exc |-> exc, status_code |-> status_code, detail |-> detail]

Returned == Raise("none", 0, "")

HTTPException(status_code, detail) == Raise("HTTPException", status_code, detail)

PsycopgErrors ==
  {"OperationalError", "DataError", "IntegrityError", "ProgrammingError"}

\* no psycopg clause: the exception leaves the handler as it was raised
ExceptNothing(outcome) == outcome

\* the handler-specific psycopg clauses: each raises its own HTTPException
ExceptPsycopg(outcome) ==
  CASE outcome.exc = "OperationalError" ->
         HTTPException(503, "Database connection error")
    [] outcome.exc = "DataError" ->
         HTTPException(400, "Invalid data format")
    [] outcome.exc = "IntegrityError" ->
         HTTPException(409, "Database constraint violation")
    [] outcome.exc = "ProgrammingError" ->
         HTTPException(500, "Database programming error")
    [] OTHER -> outcome

\* One try statement: the first clause that matches the raised exception
\* runs.  classes are the psycopg classes the handler names; catch_all says
\* whether a final "except Exception" follows, raising a 500 with detail.
\* HTTPException is an Exception, so a catch-all clause catches it too.
Except(outcome, classes, catch_all, detail) ==
  IF outcome.exc = "none" THEN outcome
  ELSE IF outcome.exc \in classes THEN ExceptPsycopg(outcome)
  ELSE IF catch_all THEN HTTPException(500, detail)
  ELSE outcome

\* a try statement whose only clause is "except Exception"
ExceptException(outcome, detail) == Except(outcome, {}, TRUE, detail)

\* the response for a handler that exits with this outcome; ok is the
\* response when it returned
Dispatch(outcome, ok) ==
  CASE outcome.exc = "none" -> ok
    [] outcome.exc = "HTTPException" ->
         http_exception_handler(outcome.status_code, outcome.detail)
    [] OTHER -> general_exception_handler

(***************************************************************************)
(* Tables.  ingredients and formulas are functions from the stored ids.    *)
(***************************************************************************)
Stored(table) == DOMAIN table

Without(table, ids) == [k \in (DOMAIN table) \ ids |-> table[k]]

With(table, id, row) ==
  [k \in (DOMAIN table) \cup {id} |-> IF k = id THEN row ELSE table[k]]

\* UNIQUE (name): another row already carries the name
NameTaken(table, name, self) ==
  \E k \in DOMAIN table : k # self /\ table[k].name = name

\* jsonb: ingredients ? id
HasKey(mapping, id) == id \in DOMAIN mapping

\* SELECT COUNT(*) FROM formulas WHERE ingredients ? id
ReferencingFormulas(id) ==
  {f \in Stored(formulas) : HasKey(formulas[f].ingredients, id)}

Referenced(id) == ReferencingFormulas(id) # {}

\* IngredientAttributes.validate_name / validate_unit, FormulaAttributes.validate_name
ValidName(v) == Len(v) >= 1 /\ strip(v) # << >>

(***************************************************************************)
(* The HTTP exchange.  request, response and queries are request-scoped:   *)
(* a handler runs for an accepted request and leaves the response, and the *)
(* outermost middleware returns it, which ends the exchange.               *)
(***************************************************************************)
Idle == [op |-> "idle"]

Accepting == request.op = "idle"

\* StructuredLoggingMiddleware.dispatch: return response
dispatch ==
  /\ request.op # "idle"
  /\ UNCHANGED invoice_vars
  /\ request' = Idle
  /\ response' = NoResponse
  /\ queries' = 0
  /\ UNCHANGED <<ingredients, formulas, issuedIngredients, issuedFormulas>>

(***************************************************************************)
(* Calls on the invoices: worker w is free, or runs op and stands at pc    *)
(* with the invoice id and path it works on; a call that has ended (pc     *)
(* "done") keeps the exception it met, whether the exception left the      *)
(* call, and the HTTP status (0 for a repository method).                  *)
(***************************************************************************)
Workers == 1..MaxWorkers

Worker(op, pc, id, pdf_path, exc, raised, status) ==
  [op |-> op, pc |-> pc, id |-> id, pdf_path |-> pdf_path, exc |-> exc, raised |-> raised, status |-> status]

Free == Worker("none", "free", 0, 0, "none", FALSE, 0)

(***************************************************************************)
(* Initial state: empty tables and upload directory, nothing issued, no    *)
(* exchange and no call in flight.                                         *)
(***************************************************************************)
Init ==
  /\ ingredients = << >>
  /\ formulas = << >>
  /\ issuedIngredients = 0
  /\ issuedFormulas = 0
  /\ request = Idle
  /\ response = NoResponse
  /\ queries = 0
  /\ invoices = << >>
  /\ files = {}
  /\ issuedUuids = 0
  /\ workers = [w \in Workers |-> Free]

(***************************************************************************)
(* POST /api/v1/ingredients                                                *)
(***************************************************************************)
create_ingredient(name, unit) ==
  /\ Accepting
  /\ UNCHANGED invoice_vars
  /\ issuedIngredients < MaxIngredients
  /\ request' = [op |-> "create_ingredient", name |-> name, unit |-> unit]
  /\ UNCHANGED <<formulas, issuedFormulas>>
  /\ IF ~(ValidName(name) /\ ValidName(unit))
     THEN /\ response' = RequestValidationError
          /\ queries' = 0
          /\ UNCHANGED <<ingredients, issuedIngredients>>
     ELSE LET id == issuedIngredients + 1
              row == [name |-> strip(name), unit |-> strip(unit)]
              body == IF NameTaken(ingredients, row.name, id)
                      THEN Raise("IntegrityError", 0, "")
                      ELSE Returned
          IN /\ issuedIngredients' = id
             /\ queries' = 1
             /\ response' = Dispatch(Except(body, PsycopgErrors, FALSE, ""),
                                     IngredientOut(id, row))
             /\ ingredients' = IF body.exc = "none"
                               THEN With(ingredients, id, row)
                               ELSE ingredients

(***************************************************************************)
(* PATCH /api/v1/ingredients/{ingredient_id}                               *)
(* The whole body, the 404 included, is inside "except Exception".         *)
(***************************************************************************)
update_ingredient(ingredient_id, name, unit) ==
  /\ Accepting
  /\ UNCHANGED invoice_vars
  /\ request' = [op |-> "update_ingredient", id |-> ingredient_id,
                 name |-> name, unit |-> unit]
  /\ UNCHANGED <<formulas, issuedFormulas, issuedIngredients>>
  /\ IF ~(ValidName(name) /\ ValidName(unit))
     THEN /\ response' = RequestValidationError
          /\ queries' = 0
          /\ UNCHANGED ingredients
     ELSE LET body ==
                IF ingredient_id \notin Stored(ingredients)
                THEN HTTPException(404, "Ingredient not found")
                ELSE IF NameTaken(ingredients, strip(name), ingredient_id)
                THEN Raise("IntegrityError", 0, "")
                ELSE Returned
          IN /\ response' = Dispatch(
                  ExceptException(body, "Failed to update ingredient"),
                  IngredientOut(ingredient_id,
                                [name |-> strip(name), unit |-> strip(unit)]))
             /\ queries' = IF ingredient_id \notin Stored(ingredients)
                           THEN 1 ELSE 2
             /\ ingredients' =
                  IF body.exc = "none"
                  THEN With(ingredients, ingredient_id,
                            [name |-> strip(name), unit |-> strip(unit)])
                  ELSE ingredients

(***************************************************************************)
(* DELETE /api/v1/ingredients/{ingredient_id}                              *)
(* The 404 and the "used in formulas" 400 are raised inside the try block  *)
(* whose only clause is "except Exception".                                *)
(***************************************************************************)
delete_ingredient_body(ingredient_id) ==
  IF ingredient_id \notin Stored(ingredients)
  THEN HTTPException(404, "Ingredient not found")
  ELSE IF Cardinality(ReferencingFormulas(ingredient_id)) > 0
  THEN HTTPException(400, "Cannot delete ingredient: it is used in formula(s)")
  ELSE Returned

delete_ingredient(ingredient_id) ==
  LET body == delete_ingredient_body(ingredient_id) IN
  /\ Accepting
  /\ UNCHANGED invoice_vars
  /\ request' = [op |-> "delete_ingredient", id |-> ingredient_id]
  /\ UNCHANGED <<formulas, issuedFormulas, issuedIngredients>>
  /\ response' = Dispatch(ExceptException(body, "Failed to delete ingredient"),
                          Success(204))
  /\ queries' = CASE body.exc = "none" -> 3
                  [] body.status_code = 404 -> 1
                  [] OTHER -> 2
  /\ ingredients' = IF body.exc = "none"
                    THEN Without(ingredients, {ingredient_id})
                    ELSE ingredients

(***************************************************************************)
(* IngredientRepository.delete: a bare DELETE, no existence or reference   *)
(* check.                                                                  *)
(***************************************************************************)
IngredientRepository_delete(ingredient_id) ==
  /\ Accepting
  /\ UNCHANGED invoice_vars
  /\ request' = [op |-> "IngredientRepository.delete", id |-> ingredient_id]
  /\ response' = NoResponse
  /\ queries' = 1
  /\ ingredients' = Without(ingredients, {ingredient_id})
  /\ UNCHANGED <<formulas, issuedFormulas, issuedIngredients>>

(***************************************************************************)
(* DELETE /api/v1/bulk/ingredients                                         *)
(* ingredient_ids is the payload's list, duplicates kept.  An empty list   *)
(* makes "IN ()", a syntax error.  The handler's except clause re-raises   *)
(* whatever it caught.                                                     *)
(***************************************************************************)
Range(seq) == {seq[i] : i \in 1..Len(seq)}

BulkDeleteInputs ==
  UNION {[1..n -> KnownIngredientIds] : n \in 0..2}

bulk_delete_ingredients_body(ingredient_ids) ==
  LET existing_ids == Range(ingredient_ids) \cap Stored(ingredients)
      missing_ids == Range(ingredient_ids) \ existing_ids
  IN IF Len(ingredient_ids) = 0
     THEN Raise("ProgrammingError", 0, "")
     ELSE IF missing_ids # {}
     THEN HTTPException(404, "Ingredients not found")
     ELSE Returned

bulk_delete_ingredients(ingredient_ids) ==
  LET body == bulk_delete_ingredients_body(ingredient_ids) IN
  /\ Accepting
  /\ UNCHANGED invoice_vars
  /\ request' = [op |-> "bulk_delete_ingredients", ids |-> ingredient_ids]
  /\ UNCHANGED <<formulas, issuedFormulas, issuedIngredients>>
  /\ response' = Dispatch(body,
                          Envelope(200, "", "", << >>, FALSE, {},
                                   Absent, Absent, Len(ingredient_ids)))
  /\ queries' = IF body.exc = "none" THEN 3 ELSE 2
  /\ ingredients' = IF body.exc = "none"
                    THEN Without(ingredients, Range(ingredient_ids))
                    ELSE ingredients

(***************************************************************************)
(* POST /api/v1/bulk/ingredients                                           *)
(* One uuid per item, then a single INSERT of all the items.  An empty     *)
(* list makes "VALUES" with no row, a syntax error.  The whole body is     *)
(* inside "except Exception".                                              *)
(***************************************************************************)
BulkItem(name, unit) == [name |-> name, unit |-> unit]

BulkCreateItems ==
  {BulkItem(T_oil_padded, T_ml_padded), BulkItem(T_wax, T_ml),
   BulkItem(<<" ">>, T_ml)}

BulkCreateInputs == UNION {[1..n -> BulkCreateItems] : n \in 0..2}

\* the rows of the INSERT: the attributes as the validators returned them
BulkRows(items) ==
  [i \in 1..Len(items) |->
     [name |-> strip(items[i].name), unit |-> strip(items[i].unit)]]

bulk_create_ingredients_body(items) ==
  LET rows == BulkRows(items)
  IN IF Len(items) = 0
     THEN Raise("ProgrammingError", 0, "")
     ELSE IF \/ \E i \in 1..Len(rows) : NameTaken(ingredients, rows[i].name, UnissuedId)
             \/ \E i, j \in 1..Len(rows) : i # j /\ rows[i].name = rows[j].name
     THEN Raise("IntegrityError", 0, "")
     ELSE Returned

bulk_create_ingredients(items) ==
  /\ Accepting
  /\ UNCHANGED invoice_vars
  /\ issuedIngredients + Len(items) <= MaxIngredients
  /\ request' = [op |-> "bulk_create_ingredients", items |-> items]
  /\ UNCHANGED <<formulas, issuedFormulas>>
  /\ IF \E i \in 1..Len(items) :
          ~(ValidName(items[i].name) /\ ValidName(items[i].unit))
     THEN /\ response' = RequestValidationError
          /\ queries' = 0
          /\ UNCHANGED <<ingredients, issuedIngredients>>
     ELSE LET rows == BulkRows(items)
              ingredient_id(i) == issuedIngredients + i
              body == bulk_create_ingredients_body(items)
              returned ==
                [i \in 1..Len(rows) |->
                   [id |-> ingredient_id(i), name |-> rows[i].name,
                    unit |-> rows[i].unit]]
          IN /\ issuedIngredients' = issuedIngredients + Len(items)
             /\ queries' = 1
             /\ response' = Dispatch(
                  ExceptException(body, "Failed to create bulk ingredients"),
                  Envelope(201, "", "", returned, FALSE, {},
                           Len(rows), Absent, Absent))
             /\ ingredients' =
                  IF body.exc = "none"
                  THEN [k \in Stored(ingredients)
                              \cup {ingredient_id(i) : i \in 1..Len(rows)} |->
                          IF k \in Stored(ingredients) THEN ingredients[k]
                          ELSE rows[k - issuedIngredients]]
                  ELSE ingredients

(***************************************************************************)
(* PATCH /api/v1/bulk/ingredients                                          *)
(* One SELECT for the ids of the payload, then one UPDATE per item, each   *)
(* committed on its own (the connection is in autocommit mode); the loop   *)
(* ends at the first UPDATE that raises.  existing_ids holds the ids as    *)
(* the driver returns them: they equal the strings of the payload if the   *)
(* id column is a text column (text_ids), and none does if it is a uuid    *)
(* column.  The whole body is inside "except Exception".                   *)
(***************************************************************************)
BulkUpdateItem(id, name, unit) == [id |-> id, name |-> name, unit |-> unit]

BulkUpdateInputs ==
  UNION {[1..n -> {BulkUpdateItem(id, name, T_g) :
                     id \in KnownIngredientIds, name \in {T_oil}}] :
           n \in 0..2}

\* for item in payload.data: UPDATE ... WHERE id = item.id, from item i on
RECURSIVE UpdateEach(_, _, _)
UpdateEach(table, items, i) ==
  IF i > Len(items)
  THEN [table |-> table, outcome |-> Returned, executed |-> Len(items)]
  ELSE IF NameTaken(table, strip(items[i].name), items[i].id)
  THEN [table |-> table, outcome |-> Raise("IntegrityError", 0, ""),
        executed |-> i]
  ELSE UpdateEach(With(table, items[i].id,
                       [name |-> strip(items[i].name),
                        unit |-> strip(items[i].unit)]),
                  items, i + 1)

bulk_update_ingredients(items, text_ids) ==
  /\ Accepting
  /\ UNCHANGED invoice_vars
  /\ request' = [op |-> "bulk_update_ingredients", items |-> items,
                 text_ids |-> text_ids]
  /\ UNCHANGED <<formulas, issuedFormulas, issuedIngredients>>
  /\ IF \E i \in 1..Len(items) :
          ~(ValidName(items[i].name) /\ ValidName(items[i].unit))
     THEN /\ response' = RequestValidationError
          /\ queries' = 0
          /\ UNCHANGED ingredients
     ELSE LET ingredient_ids == {items[i].id : i \in 1..Len(items)}
              existing_ids == IF text_ids
                              THEN ingredient_ids \cap Stored(ingredients)
                              ELSE {}
              missing_ids == ingredient_ids \ existing_ids
              run == IF missing_ids # {}
                     THEN [table |-> ingredients,
                           outcome |-> HTTPException(404, "Ingredients not found"),
                           executed |-> 0]
                     ELSE UpdateEach(ingredients, items, 1)
              updated_ingredients ==
                [i \in 1..Len(items) |->
                   [id |-> items[i].id, name |-> strip(items[i].name),
                    unit |-> strip(items[i].unit)]]
          IN /\ response' = Dispatch(
                  ExceptException(run.outcome,
                                  "Failed to update bulk ingredients"),
                  Envelope(200, "", "", updated_ingredients, FALSE, {},
                           Len(items), Absent, Absent))
             /\ queries' = 1 + run.executed
             /\ ingredients' = run.table

(***************************************************************************)
(* POST /api/v1/formulas, PATCH and DELETE /api/v1/formulas/{formula_id}   *)
(***************************************************************************)
FormulaRow(payload) ==
  [name |-> strip(payload.name), description |-> payload.description,
   ingredients |-> ingredients_json(payload.ingredients),
   mass |-> payload.mass]

\* the record create_formula returns: the id it drew, the validated
\* attributes and the relationships as the client sent them
FormulaOut(id, row, relationships) ==
  Envelope(200, "", "", <<[id |-> id, name |-> row.name, mass |-> row.mass, relationships |-> relationships]>>, FALSE, {}, Absent, Absent, Absent)

create_formula(payload) ==
  /\ Accepting
  /\ UNCHANGED invoice_vars
  /\ issuedFormulas < MaxFormulas
  /\ request' = [op |-> "create_formula", payload |-> payload]
  /\ UNCHANGED <<ingredients, issuedIngredients>>
  /\ IF ~ValidName(payload.name)
     THEN /\ response' = RequestValidationError
          /\ queries' = 0
          /\ UNCHANGED <<formulas, issuedFormulas>>
     ELSE LET formula_id == issuedFormulas + 1
              row == FormulaRow(payload)
              body == IF NameTaken(formulas, row.name, formula_id)
                      THEN Raise("IntegrityError", 0, "")
                      ELSE Returned
          IN /\ issuedFormulas' = formula_id
             /\ queries' = 1
             /\ response' = Dispatch(
                  Except(body, PsycopgErrors, TRUE,
                         "An unexpected error occurred"),
                  FormulaOut(formula_id, row, payload.ingredients))
             /\ formulas' = IF body.exc = "none"
                            THEN With(formulas, formula_id, row)
                            ELSE formulas

update_formula(formula_id, payload) ==
  /\ Accepting
  /\ UNCHANGED invoice_vars
  /\ request' = [op |-> "update_formula", id |-> formula_id,
                 payload |-> payload]
  /\ UNCHANGED <<ingredients, issuedIngredients, issuedFormulas>>
  /\ IF ~ValidName(payload.name)
     THEN /\ response' = RequestValidationError
          /\ queries' = 0
          /\ UNCHANGED formulas
     ELSE LET body ==
                IF formula_id \notin Stored(formulas)
                THEN HTTPException(404, "Formula not found")
                ELSE IF NameTaken(formulas, strip(payload.name), formula_id)
                THEN Raise("IntegrityError", 0, "")
                ELSE Returned
          IN /\ response' = Dispatch(
                  ExceptException(body, "Failed to update formula"),
                  Success(200))
             /\ queries' = IF formula_id \notin Stored(formulas) THEN 1 ELSE 2
             /\ formulas' =
                  IF body.exc = "none"
                  THEN With(formulas, formula_id, FormulaRow(payload))
                  ELSE formulas

delete_formula(formula_id) ==
  LET body == IF formula_id \notin Stored(formulas)
              THEN HTTPException(404, "Formula not found")
              ELSE Returned
  IN
  /\ Accepting
  /\ UNCHANGED invoice_vars
  /\ request' = [op |-> "delete_formula", id |-> formula_id]
  /\ UNCHANGED <<ingredients, issuedIngredients, issuedFormulas>>
  /\ response' = Dispatch(ExceptException(body, "Failed to delete formula"),
                          Success(204))
  /\ queries' = IF body.exc = "none" THEN 2 ELSE 1
  /\ formulas' = IF body.exc = "none"
                 THEN Without(formulas, {formula_id})
                 ELSE formulas

(***************************************************************************)
(* FormulaRepository.get_by_id: the Formula of the row with the id, or     *)
(* None.  A repository call: no HTTP response; the exchange records what   *)
(* the call returned.                                                      *)
(***************************************************************************)
None == [id |-> UnissuedId]

Formula(id, row) ==
  [id |-> id, name |-> row.name, description |-> row.description,
   ingredients |-> row.ingredients, mass |-> row.mass]

get_by_id(formula_id) ==
  IF formula_id \notin Stored(formulas) THEN None
  ELSE Formula(formula_id, formulas[formula_id])

FormulaRepository_get_by_id(formula_id) ==
  /\ Accepting
  /\ UNCHANGED invoice_vars
  /\ request' = [op |-> "FormulaRepository.get_by_id", id |-> formula_id]
  /\ response' = [NoResponse EXCEPT !.data = <<get_by_id(formula_id)>>]
  /\ queries' = 1
  /\ UNCHANGED <<ingredients, formulas, issuedIngredients, issuedFormulas>>

(***************************************************************************)
(* The database's text functions, as the SQL of the search statements      *)
(* uses them.  Ranks and similarities are rationals; a similarity is the   *)
(* pair <<shared, total>> of trigram counts and a score is in thousandths. *)
(***************************************************************************)
\* the words of a text: maximal runs of non-space characters, lower-cased
RECURSIVE SplitWords(_, _, _)
SplitWords(s, word, acc) ==
  IF s = << >>
  THEN IF word = << >> THEN acc ELSE Append(acc, word)
  ELSE IF IsSpace(Head(s))
  THEN SplitWords(Tail(s), << >>,
                  IF word = << >> THEN acc ELSE Append(acc, word))
  ELSE SplitWords(Tail(s), Append(word, LowerChar(Head(s))), acc)

Words(s) == IF s = NULL THEN << >> ELSE SplitWords(s, << >>, << >>)

\* the lexemes of the precomputed search_vector column: name, then description
search_vector(row) == Words(row.name) \o Words(row.description)

plainto_tsquery(q) == Range(Words(q))

\* search_vector @@ plainto_tsquery(q): every query term occurs; a query
\* without terms matches nothing
TsMatch(vector, tsquery) ==
  tsquery # {} /\ tsquery \subseteq Range(vector)

Occurrences(vector, term) ==
  Cardinality({i \in 1..Len(vector) : vector[i] = term})

Min(S) == CHOOSE x \in S : \A y \in S : x <= y
Max(S) == CHOOSE x \in S : \A y \in S : x >= y

\* ts_rank_cd in thousandths: 0.1 for each cover of the query in the vector
ts_rank_cd(vector, tsquery) ==
  IF ~TsMatch(vector, tsquery) THEN 0
  ELSE 100 * Min({Occurrences(vector, t) : t \in tsquery})

\* pg_trgm: each word padded with two blanks in front and one behind
Trigrams(s) ==
  LET ws == Words(s)
      pad(w) == <<" ", " ">> \o w \o <<" ">>
  IN UNION { {SubSeq(pad(ws[k]), i, i + 2) : i \in 1..(Len(ws[k]) + 1)} :
             k \in 1..Len(ws) }

\* similarity(a, b) = |shared trigrams| / |all trigrams|.  A NULL argument
\* gives NULL, written <<0, 0>>: it passes no comparison, and GREATEST
\* skips it
NullSimilarity == <<0, 0>>

similarity(a, b) ==
  IF a = NULL \/ b = NULL THEN NullSimilarity
  ELSE <<Cardinality(Trigrams(a) \cap Trigrams(b)),
         Cardinality(Trigrams(a) \cup Trigrams(b))>>

\* similarity > threshold, threshold in thousandths
SimilarityAbove(sim, threshold) ==
  sim[2] > 0 /\ 1000 * sim[1] > threshold * sim[2]

SimilarityScore(sim) ==
  IF sim[2] = 0 THEN 0 ELSE (1000 * sim[1]) \div sim[2]

\* Row i of the edit-distance table from row i - 1, columns 0..Len(b).
\* An entry is the cheapest of: a deletion or a substitution into column k
\* (from the previous row), followed by insertions up to column j.
LevRow(prev, i, a_i, b) ==
  LET base(k) == IF k = 0 THEN i
                 ELSE Min({ prev[k] + 1,
                            prev[k - 1] + (IF a_i = b[k] THEN 0 ELSE 1) })
  IN [j \in 0..Len(b) |-> Min({base(k) + (j - k) : k \in 0..j})]

RECURSIVE LevRows(_, _, _, _)
LevRows(a, b, i, prev) ==
  IF i > Len(a) THEN prev[Len(b)]
  ELSE LevRows(a, b, i + 1, LevRow(prev, i, a[i], b))

\* levenshtein(a, b).  A NULL argument gives NULL, written -1: it passes
\* no comparison
NullDistance == -1

levenshtein(a, b) ==
  IF a = NULL \/ b = NULL THEN NullDistance
  ELSE LevRows(a, b, 1, [j \in 0..Len(b) |-> j])

sql_lower(s) == IF s = NULL THEN NULL ELSE lower(s)

\* levenshtein(...) <= max_distance
WithinDistance(d, max_distance) == d # NullDistance /\ d <= max_distance


(***************************************************************************)
(* Parameterised statements.  A statement is the list of its %s            *)
(* placeholders, each named for the place it fills, and the list of values *)
(* passed with it.  A value carries its Python type.                       *)
(***************************************************************************)
Text(v) == [t |-> "text", v |-> v]
Num(v) == [t |-> "num", v |-> v]

Statement(slots, params) == [slots |-> slots, params |-> params]

FuzzyWhereSlots ==
  <<"where_ts_q",
    "where_name_q", "where_name_threshold",
    "where_desc_q", "where_desc_threshold",
    "where_name_lev_q", "where_name_max_distance",
    "where_desc_lev_q", "where_desc_max_distance">>

FuzzySearchSlots ==
  <<"rank_ts_q", "rank_name_q", "rank_desc_q">> \o FuzzyWhereSlots
     \o <<"limit", "offset">>

PlainSearchSlots == <<"rank_ts_q", "where_ts_q", "limit", "offset">>

PlainCountSlots == <<"where_ts_q">>

TextSlots ==
  {"rank_ts_q", "rank_name_q", "rank_desc_q", "where_ts_q", "where_name_q",
   "where_desc_q", "where_name_lev_q", "where_desc_lev_q"}

build_search_query(params, is_fuzzy) ==
  IF is_fuzzy
  THEN Statement(FuzzySearchSlots,
         << Text(params.q), Text(params.q), Text(params.q),
            Text(params.q), Text(params.q),
            Text(params.q), Num(params.fuzzy.similarity_threshold),
            Text(params.q), Num(params.fuzzy.similarity_threshold),
            Text(params.q), Num(params.fuzzy.max_distance),
            Text(params.q), Num(params.fuzzy.max_distance),
            Num(params.size), Num((params.page - 1) * params.size) >>)
  ELSE Statement(PlainSearchSlots,
         << Text(params.q), Text(params.q),
            Num(params.size), Num((params.page - 1) * params.size) >>)

build_count_query(params, is_fuzzy) ==
  IF is_fuzzy
  THEN Statement(FuzzyWhereSlots,
         << Text(params.q), Text(params.q),
            Text(params.q), Num(params.fuzzy.similarity_threshold),
            Text(params.q), Num(params.fuzzy.similarity_threshold),
            Text(params.q), Num(params.fuzzy.max_distance),
            Text(params.q), Num(params.fuzzy.max_distance) >>)
  ELSE Statement(PlainCountSlots, << Text(params.q) >>)

\* cur.execute(query, params): psycopg refuses a parameter list whose length
\* differs from the number of placeholders, and the server refuses a value
\* of the wrong type for its place; both are ProgrammingError
Executable(stmt) ==
  /\ Len(stmt.params) = Len(stmt.slots)
  /\ \A i \in 1..Len(stmt.slots) :
        (stmt.slots[i] \in TextSlots) <=> (stmt.params[i].t = "text")

\* the value bound to a placeholder
Bound(stmt, slot) ==
  stmt.params[CHOOSE i \in 1..Len(stmt.slots) : stmt.slots[i] = slot].v

HasSlot(stmt, slot) == slot \in Range(stmt.slots)

\* WHERE clause of the search and count statements, for one formula row
Where(stmt, row) ==
  \/ TsMatch(search_vector(row), plainto_tsquery(Bound(stmt, "where_ts_q")))
  \/ /\ HasSlot(stmt, "where_name_q")
     /\ \/ SimilarityAbove(similarity(row.name, Bound(stmt, "where_name_q")),
                           Bound(stmt, "where_name_threshold"))
        \/ SimilarityAbove(similarity(row.description,
                                      Bound(stmt, "where_desc_q")),
                           Bound(stmt, "where_desc_threshold"))
        \/ WithinDistance(levenshtein(sql_lower(row.name),
                                      sql_lower(Bound(stmt, "where_name_lev_q"))),
                          Bound(stmt, "where_name_max_distance"))
        \/ WithinDistance(levenshtein(sql_lower(row.description),
                                      sql_lower(Bound(stmt, "where_desc_lev_q"))),
                          Bound(stmt, "where_desc_max_distance"))

\* the rank column of the search statement, in thousandths
Rank(stmt, row) ==
  IF HasSlot(stmt, "rank_name_q")
  THEN Max({ ts_rank_cd(search_vector(row),
                        plainto_tsquery(Bound(stmt, "rank_ts_q"))),
             SimilarityScore(similarity(row.name, Bound(stmt, "rank_name_q"))),
             SimilarityScore(similarity(row.description,
                                        Bound(stmt, "rank_desc_q"))) })
  ELSE ts_rank_cd(search_vector(row), plainto_tsquery(Bound(stmt, "rank_ts_q")))

Selected(stmt) == {f \in Stored(formulas) : Where(stmt, formulas[f])}

\* the orders ORDER BY rank DESC may produce: any order of the selected
\* rows that never puts a lower rank first
RankedOrders(stmt) ==
  LET S == Selected(stmt)
      n == Cardinality(S)
  IN { o \in [1..n -> S] :
         /\ \A i, j \in 1..n : i # j => o[i] # o[j]
         /\ \A i \in 1..(n - 1) :
              Rank(stmt, formulas[o[i]]) >= Rank(stmt, formulas[o[i + 1]]) }

\* LIMIT limit OFFSET offset
Page(order, limit, offset) ==
  SubSeq(order, offset + 1, Min({Len(order), offset + limit}))

\* the result sets the search statement may return
SearchRows(stmt) ==
  { Page(o, Bound(stmt, "limit"), Bound(stmt, "offset")) :
      o \in RankedOrders(stmt) }

\* the number the count statement returns
CountRows(stmt) == Cardinality(Selected(stmt))


(***************************************************************************)
(* GET /api/v1/search/ingredients                                          *)
(* q and search are optional (NULL when absent); page and size are plain   *)
(* integers without bounds.  The "Search term is required" 400 is raised   *)
(* inside the try block, whose last clause is "except Exception".          *)
(***************************************************************************)
Alphabet ==
  <<" ", "a", "b", "c", "d", "e", "f", "g", "h", "i", "j", "k", "l", "m",
    "n", "o", "p", "q", "r", "s", "t", "u", "v", "w", "x", "y", "z">>

CharRank(c) == CHOOSE i \in 1..Len(Alphabet) : Alphabet[i] = LowerChar(c)

\* ORDER BY name: a before b
RECURSIVE TextBefore(_, _)
TextBefore(a, b) ==
  IF b = << >> THEN FALSE
  ELSE IF a = << >> THEN TRUE
  ELSE IF Head(a) = Head(b) THEN TextBefore(Tail(a), Tail(b))
  ELSE CharRank(Head(a)) < CharRank(Head(b))

\* Python truthiness of an optional string
Truthy(v) == v # NULL /\ v # << >>

\* q or search
Or(q, search) == IF Truthy(q) THEN q ELSE search

IngredientMatches(search_term) ==
  { i \in Stored(ingredients) :
      ILIKE(ingredients[i].name, search_term)
        \/ ILIKE(ingredients[i].unit, search_term) }

\* the matching rows in ORDER BY name order (names are unique)
IngredientsByName(search_term) ==
  LET S == IngredientMatches(search_term)
      n == Cardinality(S)
  IN CHOOSE o \in [1..n -> S] :
       /\ \A i, j \in 1..n : i # j => o[i] # o[j]
       /\ \A i \in 1..(n - 1) :
            TextBefore(ingredients[o[i]].name, ingredients[o[i + 1]].name)

\* (total_count + size - 1) // size
page_count(total_count, size) == (total_count + size - 1) \div size

search_ingredients_body(q, search, size) ==
  IF ~Truthy(Or(q, search))
  THEN HTTPException(400, "Search term is required. Use 'q' or 'search' parameter.")
  ELSE IF size = 0
  THEN Raise("ZeroDivisionError", 0, "")
  ELSE Returned

search_ingredients(q, search, page, size) ==
  LET search_term == Or(q, search)
      body == search_ingredients_body(q, search, size)
      rows == Page(IngredientsByName(search_term), size, (page - 1) * size)
      total_count == Cardinality(IngredientMatches(search_term))
  IN
  /\ Accepting
  /\ UNCHANGED invoice_vars
  /\ request' = [op |-> "search_ingredients", q |-> q, search |-> search,
                 page |-> page, size |-> size]
  /\ UNCHANGED <<ingredients, formulas, issuedIngredients, issuedFormulas>>
  /\ queries' = IF Truthy(search_term) THEN 2 ELSE 0
  /\ response' =
       Dispatch(
         Except(body, {"OperationalError", "DataError", "ProgrammingError"},
                TRUE, "An unexpected error occurred"),
         IF body.exc = "none"
         THEN Envelope(200, "", "", rows, FALSE, {}, total_count,
                       page_count(total_count, size), Absent)
         ELSE NoResponse)

(***************************************************************************)
(* GET /api/v1/search/formulas                                             *)
(* FastAPI builds params = SearchParams(q, page, size, include) from the   *)
(* query string; SearchParams declares no other field, so whatever fuzzy   *)
(* configuration the client sent is not part of params.                    *)
(***************************************************************************)
NoFuzzy == [similarity_threshold |-> Absent, max_distance |-> Absent]

FuzzyInputs == {NoFuzzy, [similarity_threshold |-> 300, max_distance |-> 2]}

SearchParams(q, page, size, include) ==
  [q |-> q, page |-> page, size |-> size, include |-> include]

\* attribute lookup on a model instance
HasAttr(params, name) == name \in DOMAIN params

\* for row in rows: ingredient_ids.update(row[3].keys())
IngredientIdsOf(rows) ==
  UNION {DOMAIN formulas[rows[i]].ingredients : i \in 1..Len(rows)}

\* fetch_included_ingredients: the stored ingredients among ingredient_ids,
\* and the number of statements executed for them
fetch_included_ingredients(ingredient_ids) ==
  IF ingredient_ids = {}
  THEN [rows |-> {}, queries |-> 0]
  ELSE [rows |-> ingredient_ids \cap Stored(ingredients), queries |-> 1]

\* SearchResult declares data: List[Dict] and meta: Dict; a returned "data"
\* that is a single object fails response validation
SearchResultValid(returned) == returned.data_is_list

\* What one run of the handler can end in: the outcome of its body, the
\* value it returned (if it returned) and the statements it executed.
search_formulas_runs(params) ==
  IF ~HasAttr(params, "fuzzy")
  THEN \* the log call before the try block reads params.fuzzy
       { [outcome |-> Raise("AttributeError", 0, ""), queries |-> 0,
          returned |-> [data_is_list |-> FALSE, items |-> << >>,
                        included |-> {}, total_count |-> Absent,
                        page_count |-> Absent]] }
  ELSE LET is_fuzzy == params.fuzzy # NoFuzzy
           search == build_search_query(params, is_fuzzy)
           count == build_count_query(params, is_fuzzy)
           failed(n) ==
             { [outcome |-> ExceptException(Raise("ProgrammingError", 0, ""),
                                            "Failed to search formulas"),
                queries |-> n,
                returned |-> [data_is_list |-> FALSE, items |-> << >>,
                              included |-> {}, total_count |-> Absent,
                              page_count |-> Absent]] }
       IN IF ~Executable(search) THEN failed(1)
          ELSE IF ~Executable(count) THEN failed(2)
          ELSE { LET total_count == CountRows(count)
                     included ==
                       IF params.include = "ingredients"
                       THEN fetch_included_ingredients(IngredientIdsOf(rows))
                       ELSE [rows |-> {}, queries |-> 0]
                 IN [outcome |-> Returned,
                     queries |-> 2 + included.queries,
                     \* the returned dict has "data" (one object holding the
                     \* items) and "meta"; included is computed and dropped
                     returned |-> [data_is_list |-> FALSE, items |-> rows,
                                   included |-> {},
                                   total_count |-> total_count,
                                   page_count |->
                                     page_count(total_count, params.size)]]
                 : rows \in SearchRows(search) }

search_formulas(q, page, size, include, fuzzy) ==
  /\ Accepting
  /\ UNCHANGED invoice_vars
  /\ request' = [op |-> "search_formulas", q |-> q, page |-> page,
                 size |-> size, include |-> include, fuzzy |-> fuzzy]
  /\ UNCHANGED <<ingredients, formulas, issuedIngredients, issuedFormulas>>
  /\ IF q = NULL
     THEN \* q is a required query parameter
          /\ response' = RequestValidationError
          /\ queries' = 0
     ELSE \E run \in search_formulas_runs(SearchParams(q, page, size, include)) :
          /\ queries' = run.queries
          /\ response' =
               IF run.outcome.exc = "none" /\ ~SearchResultValid(run.returned)
               THEN general_exception_handler
               ELSE Dispatch(run.outcome,
                      Envelope(200, "", "", run.returned.items, FALSE,
                               run.returned.included,
                               run.returned.total_count,
                               run.returned.page_count, Absent))

(***************************************************************************)
(* GET /api/v1/formulas                                                    *)
(* All the rows, in the order the database returns them (the statement     *)
(* has no ORDER BY).  For each entry of a row's mapping the handler looks  *)
(* the ingredient up and appends a relationship entry if it found one.     *)
(***************************************************************************)
RECURSIVE Ascending(_)
Ascending(S) ==
  IF S = {} THEN << >> ELSE <<Min(S)>> \o Ascending(S \ {Min(S)})

\* if ingredient_row: the entries whose ingredient the SELECT found
FoundEntries(mapping) == {k \in DOMAIN mapping : k \in Stored(ingredients)}

\* relationships["ingredients"]["data"], in the order of the mapping's keys
relationships(mapping) ==
  LET ids == Ascending(FoundEntries(mapping))
  IN [i \in 1..Len(ids) |-> Entry(ids[i], mapping[ids[i]])]

\* one SELECT on ingredients for each entry of each row
Lookups ==
  Cardinality({p \in Stored(formulas) \X KnownIngredientIds :
                 HasKey(formulas[p[1]].ingredients, p[2])})

RowOrders ==
  LET n == Cardinality(Stored(formulas))
  IN { o \in [1..n -> Stored(formulas)] :
         \A i, j \in 1..n : i # j => o[i] # o[j] }

get_formulas ==
  /\ Accepting
  /\ UNCHANGED invoice_vars
  /\ request' = [op |-> "get_formulas"]
  /\ \E rows \in RowOrders :
       LET listed ==
             [i \in 1..Len(rows) |->
                [id |-> rows[i], name |-> formulas[rows[i]].name,
                 mass |-> formulas[rows[i]].mass,
                 relationships |-> relationships(formulas[rows[i]].ingredients)]]
       IN response' = Envelope(200, "", "", listed, FALSE, {},
                               Absent, Absent, Absent)
  /\ queries' = 1 + Lookups
  /\ UNCHANGED <<ingredients, formulas, issuedIngredients, issuedFormulas>>

(***************************************************************************)
(* GET /api/v1/formulas/{formula_id}                                       *)
(* The application registers the path for PATCH and DELETE only, so the    *)
(* router answers a GET with 405 and no handler runs.                      *)
(***************************************************************************)
MethodNotAllowed == ErrorResponse(405, "Method Not Allowed", "Method Not Allowed")

get_formula(formula_id) ==
  /\ Accepting
  /\ UNCHANGED invoice_vars
  /\ request' = [op |-> "get_formula", id |-> formula_id]
  /\ response' = MethodNotAllowed
  /\ queries' = 0
  /\ UNCHANGED <<ingredients, formulas, issuedIngredients, issuedFormulas>>

(***************************************************************************)
(* Invoices.  A row of the invoices table records the path of its PDF      *)
(* under the upload directory; files is the set of paths that exist        *)
(* there.  The handlers are coroutines on one event loop: a call runs      *)
(* without interruption from one await to the next, so a call in flight    *)
(* is a worker with a position, and one action is one such run.            *)
(* uuid4() values are consecutive naturals.                                *)
(***************************************************************************)
SupplierInputs == {"acme", "bolt"}

\* the ingredients of an invoice: a list of objects
InvoiceIngredientInputs == {<< >>, <<"item">>}

\* the call of worker w has ended: op, the exception it met, whether the
\* exception left the call, and the HTTP status (0 for a repository call)
Done(w, exc, raised, status) ==
  Worker(workers[w].op, "done", workers[w].id, workers[w].pdf_path, exc,
         raised, status)

At(w, op, pc) == workers[w].op = op /\ workers[w].pc = pc

\* a generator that repeats itself
uuid4_repeated(issued) == 1

uuid4(issued) == issued + 1

InvoiceRow(pdf_path, supplier) == [pdf_path |-> pdf_path, supplier |-> supplier]

\* the statuses of create_invoice: every exception of the body, the two
\* HTTPException(400) included, is caught by the final "except Exception";
\* the Invoice it returns has no "data" and fails InvoiceOut
create_invoice_raised(exc) == 500

InvoiceOutValid(returned) == "data" \in returned

create_invoice_returned ==
  IF InvoiceOutValid({"id", "date", "supplier", "pdf_path", "ingredients"})
  THEN 200 ELSE 500

\* POST /api/v1/invoices up to "await file.read()": parse the form, draw the
\* file name and the id
create_invoice(w, json_ok, date_ok) ==
  /\ workers[w].pc = "free"
  /\ issuedUuids + 2 <= 2 * MaxInvoices
  /\ UNCHANGED <<catalogue_vars, invoices, files>>
  /\ IF ~json_ok
     THEN /\ workers' = [workers EXCEPT ![w] =
                Worker("create_invoice", "done", 0, 0, "JSONDecodeError",
                       TRUE, create_invoice_raised("JSONDecodeError"))]
          /\ UNCHANGED issuedUuids
     ELSE LET pdf_path == uuid4(issuedUuids)
              id == uuid4(pdf_path)
          IN /\ issuedUuids' = id
             /\ workers' = [workers EXCEPT ![w] =
                  IF date_ok
                  THEN Worker("create_invoice", "read", id, pdf_path, "none",
                              FALSE, 0)
                  ELSE Worker("create_invoice", "done", 0, 0, "ValueError",
                              TRUE, create_invoice_raised("ValueError"))]

\* open(file_path, "wb"); f.write(file)
WriteFile(pdf_path) == files \cup {pdf_path}

\* a cleanup that leaves the file
KeepWrittenFile(pdf_path) == files

\* except Exception: if os.path.exists(file_path): os.remove(file_path)
RemoveWrittenFile(pdf_path) == files \ {pdf_path}

\* InvoiceRepository.create up to the await of the INSERT: the file is written
InvoiceRepository_create_write(w, written) ==
  /\ At(w, "create_invoice", "read")
  /\ UNCHANGED <<catalogue_vars, invoices, issuedUuids>>
  /\ IF written
     THEN /\ files' = WriteFile(workers[w].pdf_path)
          /\ workers' = [workers EXCEPT ![w].pc = "insert"]
     ELSE /\ files' = RemoveWrittenFile(workers[w].pdf_path)
          /\ workers' = [workers EXCEPT ![w] =
               Done(w, "OSError", TRUE, create_invoice_raised("OSError"))]

\* InvoiceRepository.create from the INSERT on: the row is stored, or the
\* statement fails, the file is removed and the exception goes on
InvoiceRepository_create_insert(w, supplier, inserted) ==
  /\ At(w, "create_invoice", "insert")
  /\ UNCHANGED <<catalogue_vars, issuedUuids>>
  /\ IF inserted
     THEN /\ invoices' = With(invoices, workers[w].id,
                              InvoiceRow(workers[w].pdf_path, supplier))
          /\ UNCHANGED files
          /\ workers' = [workers EXCEPT ![w] =
               Done(w, "none", FALSE, create_invoice_returned)]
     ELSE /\ files' = RemoveWrittenFile(workers[w].pdf_path)
          /\ UNCHANGED invoices
          /\ workers' = [workers EXCEPT ![w] =
               Done(w, "OperationalError", TRUE,
                    create_invoice_raised("OperationalError"))]

\* psycopg dumps a Python list as an array and has no dumper for the
\* objects in it; the empty list becomes '{}'
Adaptable(items) == items = << >>

\* InvoiceRepository.update: date, supplier and ingredients of the row with
\* the id; pdf_path is not among the columns it sets
InvoiceRepository_update(w, id, supplier, items) ==
  /\ workers[w].pc = "free"
  /\ UNCHANGED <<catalogue_vars, files, issuedUuids>>
  /\ IF ~Adaptable(items)
     THEN /\ UNCHANGED invoices
          /\ workers' = [workers EXCEPT ![w] =
               Worker("InvoiceRepository.update", "done", id, 0,
                      "ProgrammingError", TRUE, 0)]
     ELSE /\ invoices' = IF id \in Stored(invoices)
                         THEN With(invoices, id,
                                   InvoiceRow(invoices[id].pdf_path, supplier))
                         ELSE invoices
          /\ workers' = [workers EXCEPT ![w] =
               Worker("InvoiceRepository.update", "done", id, 0, "none",
                      FALSE, 0)]

\* InvoiceRepository.delete up to the await of the DELETE: the row's path is
\* read; without a row the call returns
InvoiceRepository_delete(w, invoice_id) ==
  /\ workers[w].pc = "free"
  /\ UNCHANGED <<catalogue_vars, invoices, files, issuedUuids>>
  /\ workers' = [workers EXCEPT ![w] =
       IF invoice_id \notin Stored(invoices)
       THEN Worker("InvoiceRepository.delete", "done", invoice_id, 0, "none",
                   FALSE, 0)
       ELSE Worker("InvoiceRepository.delete", "delete", invoice_id,
                   invoices[invoice_id].pdf_path, "none", FALSE, 0)]

\* a DELETE that removes nothing
KeepRow(invoice_id) == invoices

\* DELETE FROM invoices WHERE id = %s
DeleteRow(invoice_id) == Without(invoices, {invoice_id})

\* the DELETE statement: a failure of the statement leaves the call
InvoiceRepository_delete_row(w, deleted) ==
  /\ At(w, "InvoiceRepository.delete", "delete")
  /\ UNCHANGED <<catalogue_vars, files, issuedUuids>>
  /\ IF deleted
     THEN /\ invoices' = DeleteRow(workers[w].id)
          /\ workers' = [workers EXCEPT ![w].pc = "remove"]
     ELSE /\ UNCHANGED invoices
          /\ workers' = [workers EXCEPT ![w] =
               Done(w, "OperationalError", TRUE, 0)]

\* a removal failure that leaves the call
RemovalRaised(w) == Done(w, "PermissionError", TRUE, 0)

\* except (FileNotFoundError, PermissionError, OSError): pass
RemovalFailed(w) == Done(w, "PermissionError", FALSE, 0)

\* if os.path.exists(file_path): os.remove(file_path); an OSError of the
\* removal is caught and passed over
InvoiceRepository_delete_file(w, removable) ==
  /\ At(w, "InvoiceRepository.delete", "remove")
  /\ UNCHANGED <<catalogue_vars, invoices, issuedUuids>>
  /\ IF workers[w].pdf_path \notin files
     THEN /\ UNCHANGED files
          /\ workers' = [workers EXCEPT ![w] = Done(w, "none", FALSE, 0)]
     ELSE IF removable
     THEN /\ files' = files \ {workers[w].pdf_path}
          /\ workers' = [workers EXCEPT ![w] = Done(w, "none", FALSE, 0)]
     ELSE /\ UNCHANGED files
          /\ workers' = [workers EXCEPT ![w] = RemovalFailed(w)]

\* the caller has the result of the call
respond(w) ==
  /\ workers[w].pc = "done"
  /\ workers' = [workers EXCEPT ![w] = Free]
  /\ UNCHANGED <<catalogue_vars, invoices, files, issuedUuids>>

KnownInvoiceIds == 0..issuedUuids

InvoiceNext ==
  \/ \E w \in Workers, json_ok \in BOOLEAN, date_ok \in BOOLEAN :
       create_invoice(w, json_ok, date_ok)
  \/ \E w \in Workers, written \in BOOLEAN :
       InvoiceRepository_create_write(w, written)
  \/ \E w \in Workers, supplier \in SupplierInputs, inserted \in BOOLEAN :
       InvoiceRepository_create_insert(w, supplier, inserted)
  \/ \E w \in Workers, id \in KnownInvoiceIds, supplier \in SupplierInputs,
        items \in InvoiceIngredientInputs :
       InvoiceRepository_update(w, id, supplier, items)
  \/ \E w \in Workers, id \in KnownInvoiceIds : InvoiceRepository_delete(w, id)
  \/ \E w \in Workers, deleted \in BOOLEAN :
       InvoiceRepository_delete_row(w, deleted)
  \/ \E w \in Workers, removable \in BOOLEAN :
       InvoiceRepository_delete_file(w, removable)
  \/ \E w \in Workers : respond(w)

InvoiceSpec == Init /\ [][InvoiceNext]_vars

(***************************************************************************)
(* The program: any request at any time.                                   *)
(***************************************************************************)
SearchTermInputs == {NULL, T_empty, T_oil, <<"m">>, T_zzz}
SearchQueryInputs == {NULL, T_empty, T_tea, T_chamomile, T_zzz}
IncludeInputs == {"None", "ingredients"}

Next ==
  \/ \E name \in IngredientNameInputs, unit \in IngredientUnitInputs :
       create_ingredient(name, unit)
  \/ \E id \in KnownIngredientIds, name \in IngredientNameInputs,
        unit \in IngredientUnitInputs :
       update_ingredient(id, name, unit)
  \/ \E id \in KnownIngredientIds : delete_ingredient(id)
  \/ \E id \in KnownIngredientIds : IngredientRepository_delete(id)
  \/ \E ids \in BulkDeleteInputs : bulk_delete_ingredients(ids)
  \/ \E items \in BulkCreateInputs : bulk_create_ingredients(items)
  \/ \E items \in BulkUpdateInputs, text_ids \in BOOLEAN :
       bulk_update_ingredients(items, text_ids)
  \/ \E payload \in FormulaInputs :
       /\ EntryIds(payload.ingredients) \subseteq KnownIngredientIds
       /\ create_formula(payload)
  \/ \E id \in KnownFormulaIds, payload \in FormulaInputs :
       /\ EntryIds(payload.ingredients) \subseteq KnownIngredientIds
       /\ update_formula(id, payload)
  \/ \E id \in KnownFormulaIds : delete_formula(id)
  \/ \E id \in KnownFormulaIds : FormulaRepository_get_by_id(id)
  \/ get_formulas
  \/ \E id \in KnownFormulaIds : get_formula(id)
  \/ \E q \in SearchTermInputs, search \in {NULL, T_wax},
        page \in 1..MaxPage, size \in 0..MaxSize :
       search_ingredients(q, search, page, size)
  \/ \E q \in SearchQueryInputs, page \in 1..MaxPage, size \in 1..MaxSize,
        include \in IncludeInputs, fuzzy \in FuzzyInputs :
       search_formulas(q, page, size, include, fuzzy)
  \/ dispatch

Spec == Init /\ [][Next]_vars

(***************************************************************************)
(* Errors.  An exception is its class and its message; the classes form    *)
(* the hierarchy of Python and psycopg, and a case of a match statement    *)
(* or an isinstance test accepts a class and its subclasses.               *)
(***************************************************************************)
Base(cls) ==
  CASE cls \in {"OperationalError", "DataError", "IntegrityError",
                "ProgrammingError"} -> "DatabaseError"
    [] cls = "UniqueViolation" -> "IntegrityError"
    [] cls \in {"DatabaseError", "InterfaceError"} -> "psycopg.Error"
    [] cls \in {"FileNotFoundError", "PermissionError",
                "IsADirectoryError"} -> "OSError"
    [] cls = "JSONDecodeError" -> "ValueError"
    [] OTHER -> "Exception"

RECURSIVE isinstance(_, _)
isinstance(cls, target) ==
  \/ cls = target
  \/ cls # "Exception" /\ isinstance(Base(cls), target)

ExceptionClasses ==
  {"OperationalError", "DataError", "IntegrityError", "UniqueViolation",
   "ProgrammingError", "InterfaceError", "FileNotFoundError",
   "PermissionError", "IsADirectoryError", "OSError", "JSONDecodeError",
   "ValueError", "KeyError"}

MessageInputs == {"connection refused", "duplicate key value: name=oil"}

OperationInputs == {"create_invoice", "delete_invoice"}

Case(cls, status_code, detail) ==
  [cls |-> cls, status_code |-> status_code, detail |-> detail]

\* the cases with the generic filesystem case ahead of its subclasses
CasesGenericFirst ==
  << Case("OperationalError", 503, "Database connection error"),
     Case("DataError", 400, "Invalid data format"),
     Case("IntegrityError", 409, "Database constraint violation"),
     Case("ProgrammingError", 500, "Database programming error"),
     Case("OSError", 500, "File system error"),
     Case("FileNotFoundError", 404, "File not found"),
     Case("PermissionError", 403, "Permission denied"),
     Case("JSONDecodeError", 400, "Invalid JSON format") >>

\* the cases of the match statement, in the order of the source
Cases ==
  << Case("OperationalError", 503, "Database connection error"),
     Case("DataError", 400, "Invalid data format"),
     Case("IntegrityError", 409, "Database constraint violation"),
     Case("ProgrammingError", 500, "Database programming error"),
     Case("FileNotFoundError", 404, "File not found"),
     Case("PermissionError", 403, "Permission denied"),
     Case("OSError", 500, "File system error"),
     Case("JSONDecodeError", 400, "Invalid JSON format") >>

\* the if/elif chain of utils.handle_database_error; its else raises too
UtilsCases ==
  << Case("OperationalError", 503, "Database connection error"),
     Case("DataError", 400, "Invalid data format"),
     Case("IntegrityError", 409, "Database constraint violation"),
     Case("ProgrammingError", 500, "Database programming error"),
     Case("Exception", 500, "Unexpected database error") >>

\* match e: the first case that accepts e raises its HTTPException;
\* case _ re-raises e
Match(cases, e) ==
  LET accepting == {i \in 1..Len(cases) : isinstance(e.exc, cases[i].cls)}
  IN IF accepting = {} THEN e
     ELSE HTTPException(cases[Min(accepting)].status_code,
                        cases[Min(accepting)].detail)

\* main.handle_database_error(operation, context, e): what it raises
handle_database_error(e) == Match(Cases, e)

\* utils.handle_database_error(e): what it raises
utils_handle_database_error(e) == Match(UtilsCases, e)

(***************************************************************************)
(* The exception handlers of the application in full: the detail of an     *)
(* HTTPException is a string or a dict, and each response carries one      *)
(* ErrorDetail with an error_id (a uuid4, or the one of a dict detail).    *)
(***************************************************************************)
Str(text) ==
  [dict |-> FALSE, has_message |-> TRUE, message |-> text, has_error_id |-> FALSE, error_id |-> 0]

Dict(has_message, message, has_error_id, error_id) ==
  [dict |-> TRUE, has_message |-> has_message, message |-> message, has_error_id |-> has_error_id, error_id |-> error_id]

ErrorDetail(status, title, detail, error_id) ==
  [status |-> status, title |-> title, detail |-> detail, error_id |-> error_id]

JSONResponse(status_code, errors) ==
  [status_code |-> status_code, errors |-> errors]

\* str(n) for a status code: its decimal digits
RECURSIVE str(_)
str(n) ==
  IF n < 10 THEN <<n>> ELSE Append(str(n \div 10), n % 10)

\* generate_error_id(): str(uuid4())
generate_error_id(issued) == uuid4(issued)

\* the handler without the lookup of the detail's error_id
http_exception_handler_generated(status_code, detail, error_id) ==
  JSONResponse(status_code,
    <<ErrorDetail(str(status_code), "Error", detail.message, error_id)>>)

\* http_exception_handler(request, exc), error_id being the id it generated
http_exception_handler_response(status_code, detail, error_id) ==
  JSONResponse(status_code,
    <<ErrorDetail(str(status_code), "Error",
        IF detail.dict /\ ~detail.has_message THEN "An error occurred"
        ELSE detail.message,
        IF detail.dict /\ detail.has_error_id THEN detail.error_id
        ELSE error_id)>>)

\* general_exception_handler(request, exc)
general_exception_handler_response(error_id) ==
  JSONResponse(500,
    <<ErrorDetail(str(500), "Internal Server Error",
                  "An unexpected error occurred", error_id)>>)

\* handlers that answer with the text of the exception
Leaking(outcome, error_id) ==
  JSONResponse(500,
    <<ErrorDetail(str(500), "Internal Server Error", outcome.detail, error_id)>>)

\* an exception that leaves a handler reaches the exception handler
\* registered for its class
Handled(outcome, error_id) ==
  IF outcome.exc = "HTTPException"
  THEN http_exception_handler_response(outcome.status_code,
                                       Str(outcome.detail), error_id)
  ELSE general_exception_handler_response(error_id)

\* an except clause passes the exception e it caught to
\* main.handle_database_error, which draws an error_id for its log line;
\* what that raises leaves the handler
classify(operation, exc, message) ==
  /\ Accepting
  /\ issuedUuids + 2 <= MaxErrorIds
  /\ request' = [op |-> "handle_database_error", operation |-> operation,
                 exc |-> exc, message |-> message]
  /\ response' = Handled(handle_database_error(Raise(exc, 0, message)),
                         generate_error_id(generate_error_id(issuedUuids)))
  /\ issuedUuids' = issuedUuids + 2
  /\ UNCHANGED <<table_vars, invoices, files, workers>>

\* the same with utils.handle_database_error, which draws no error_id
utils_classify(exc, message) ==
  /\ Accepting
  /\ issuedUuids + 1 <= MaxErrorIds
  /\ request' = [op |-> "utils.handle_database_error",
                 exc |-> exc, message |-> message]
  /\ response' = Handled(utils_handle_database_error(Raise(exc, 0, message)),
                         generate_error_id(issuedUuids))
  /\ issuedUuids' = issuedUuids + 1
  /\ UNCHANGED <<table_vars, invoices, files, workers>>

StatusInputs == {400, 404, 500}

\* a handler draws an error_id, logs it and raises an HTTPException whose
\* detail is a dict with that id, or a string, or a dict without an id
raise_HTTPException(status_code, dict, has_message, has_error_id) ==
  LET own == generate_error_id(issuedUuids)
      detail == IF dict
                THEN Dict(has_message, "Invalid JSON format for ingredients",
                          has_error_id, IF has_error_id THEN own ELSE 0)
                ELSE Str("Ingredient not found")
  IN
  /\ Accepting
  /\ issuedUuids + 2 <= MaxErrorIds
  /\ dict \/ (has_message /\ ~has_error_id)
  /\ request' = [op |-> "HTTPException", status_code |-> status_code,
                 detail |-> detail, logged |-> own]
  /\ response' = http_exception_handler_response(status_code, detail,
                                                 generate_error_id(own))
  /\ issuedUuids' = issuedUuids + 2
  /\ UNCHANGED <<table_vars, invoices, files, workers>>

\* an exception that is no HTTPException leaves a handler
raise_Exception(exc, message) ==
  /\ Accepting
  /\ issuedUuids + 1 <= MaxErrorIds
  /\ request' = [op |-> "Exception", exc |-> exc, message |-> message]
  /\ response' = Handled(Raise(exc, 0, message),
                         generate_error_id(issuedUuids))
  /\ issuedUuids' = issuedUuids + 1
  /\ UNCHANGED <<table_vars, invoices, files, workers>>

ErrorNext ==
  \/ \E operation \in OperationInputs, exc \in ExceptionClasses,
        message \in MessageInputs :
       classify(operation, exc, message)
  \/ \E exc \in ExceptionClasses, message \in MessageInputs :
       utils_classify(exc, message)
  \/ \E status_code \in StatusInputs, dict, has_message, has_error_id \in BOOLEAN :
       raise_HTTPException(status_code, dict, has_message, has_error_id)
  \/ \E exc \in ExceptionClasses, message \in MessageInputs :
       raise_Exception(exc, message)
  \/ dispatch

ErrorSpec == Init /\ [][ErrorNext]_vars

(***************************************************************************)
(* Concurrent requests on the catalogue.  The handlers are coroutines on   *)
(* one event loop and share one connection in autocommit mode: a handler   *)
(* runs without interruption up to its next "await cur.execute", each      *)
(* statement is committed on its own, and between two statements of one    *)
(* handler the statements of another may run.  One action is one           *)
(* statement of a call in flight: worker w stands before the statement pc  *)
(* of op, with the id and payload of its request and what it has fetched.  *)
(***************************************************************************)
Call(op, pc, id, payload, offset, rows, total_count, status) ==
  [op |-> op, pc |-> pc, id |-> id, payload |-> payload, offset |-> offset, rows |-> rows, total_count |-> total_count, status |-> status]

NoPayload == FormulaPayload(T_empty, NULL, Mapping_none, 0)

Begin(op, pc, id, payload) == Call(op, pc, id, payload, 0, << >>, Absent, 0)

\* the call of worker w moves on to the statement pc
Goto(w, pc) == [workers EXCEPT ![w].pc = pc]

\* the call of worker w ends with the HTTP status (0: a repository method)
End(w, status) == [workers EXCEPT ![w].pc = "done", ![w].status = status]

ConcurrentFormulaInputs ==
  { FormulaPayload(T_tea, NULL, Mapping_one, 100),
    FormulaPayload(T_mint_tea, NULL, Mapping_none, 50) }

\* create_ingredient: its INSERT
create_ingredient_insert(w, name, unit) ==
  LET id == issuedIngredients + 1 IN
  /\ workers[w].pc = "free"
  /\ issuedIngredients < MaxIngredients
  /\ ValidName(name) /\ ValidName(unit)
  /\ issuedIngredients' = id
  /\ IF NameTaken(ingredients, strip(name), id)
     THEN /\ workers' = [workers EXCEPT ![w] =
                Call("create_ingredient", "done", id, NoPayload, 0, << >>, Absent, 409)]
          /\ UNCHANGED ingredients
     ELSE /\ workers' = [workers EXCEPT ![w] =
                Call("create_ingredient", "done", id, NoPayload, 0, << >>, Absent, 200)]
          /\ ingredients' = With(ingredients, id,
                                 [name |-> strip(name), unit |-> strip(unit)])
  /\ UNCHANGED <<formulas, issuedFormulas, request, response, queries,
                 invoices, files, issuedUuids>>

\* delete_ingredient: SELECT id FROM ingredients WHERE id = %s
delete_ingredient_select(w, ingredient_id) ==
  /\ workers[w].pc = "free"
  /\ workers' = [workers EXCEPT ![w] =
       IF ingredient_id \in Stored(ingredients)
       THEN Begin("delete_ingredient", "count", ingredient_id, NoPayload)
       ELSE Call("delete_ingredient", "done", ingredient_id, NoPayload, 0, << >>, Absent, 500)]
  /\ UNCHANGED <<catalogue_vars, invoices, files, issuedUuids>>

\* delete_ingredient: SELECT COUNT(*) FROM formulas WHERE ingredients ? %s
delete_ingredient_count(w) ==
  /\ At(w, "delete_ingredient", "count")
  /\ workers' = IF Cardinality(ReferencingFormulas(workers[w].id)) > 0
                THEN End(w, 500)
                ELSE Goto(w, "delete")
  /\ UNCHANGED <<catalogue_vars, invoices, files, issuedUuids>>

\* delete_ingredient: DELETE FROM ingredients WHERE id = %s
delete_ingredient_delete(w) ==
  /\ At(w, "delete_ingredient", "delete")
  /\ ingredients' = Without(ingredients, {workers[w].id})
  /\ workers' = End(w, 204)
  /\ UNCHANGED <<formulas, issuedIngredients, issuedFormulas, request,
                 response, queries, invoices, files, issuedUuids>>

\* create_formula: its INSERT
create_formula_insert(w, payload) ==
  LET formula_id == issuedFormulas + 1 IN
  /\ workers[w].pc = "free"
  /\ issuedFormulas < MaxFormulas
  /\ ValidName(payload.name)
  /\ issuedFormulas' = formula_id
  /\ IF NameTaken(formulas, strip(payload.name), formula_id)
     THEN /\ workers' = [workers EXCEPT ![w] =
                Call("create_formula", "done", formula_id, payload, 0, << >>, Absent, 409)]
          /\ UNCHANGED formulas
     ELSE /\ workers' = [workers EXCEPT ![w] =
                Call("create_formula", "done", formula_id, payload, 0, << >>, Absent, 200)]
          /\ formulas' = With(formulas, formula_id, FormulaRow(payload))
  /\ UNCHANGED <<ingredients, issuedIngredients, request, response, queries,
                 invoices, files, issuedUuids>>

\* update_formula: SELECT id FROM formulas WHERE id = %s
update_formula_select(w, formula_id, payload) ==
  /\ workers[w].pc = "free"
  /\ ValidName(payload.name)
  /\ workers' = [workers EXCEPT ![w] =
       IF formula_id \in Stored(formulas)
       THEN Begin("update_formula", "update", formula_id, payload)
       ELSE Call("update_formula", "done", formula_id, payload, 0, << >>, Absent, 500)]
  /\ UNCHANGED <<catalogue_vars, invoices, files, issuedUuids>>

\* update_formula: UPDATE formulas ... WHERE id = %s RETURNING ...; without
\* a row, row[1] raises
update_formula_update(w) ==
  LET formula_id == workers[w].id
      payload == workers[w].payload
      updated == /\ formula_id \in Stored(formulas)
                 /\ ~NameTaken(formulas, strip(payload.name), formula_id)
  IN
  /\ At(w, "update_formula", "update")
  /\ formulas' = IF updated
                 THEN With(formulas, formula_id, FormulaRow(payload))
                 ELSE formulas
  /\ workers' = End(w, IF updated THEN 200 ELSE 500)
  /\ UNCHANGED <<ingredients, issuedIngredients, issuedFormulas, request,
                 response, queries, invoices, files, issuedUuids>>

\* delete_formula: SELECT id FROM formulas WHERE id = %s
delete_formula_select(w, formula_id) ==
  /\ workers[w].pc = "free"
  /\ workers' = [workers EXCEPT ![w] =
       IF formula_id \in Stored(formulas)
       THEN Begin("delete_formula", "delete", formula_id, NoPayload)
       ELSE Call("delete_formula", "done", formula_id, NoPayload, 0, << >>, Absent, 500)]
  /\ UNCHANGED <<catalogue_vars, invoices, files, issuedUuids>>

\* delete_formula: DELETE FROM formulas WHERE id = %s
delete_formula_delete(w) ==
  /\ At(w, "delete_formula", "delete")
  /\ formulas' = Without(formulas, {workers[w].id})
  /\ workers' = End(w, 204)
  /\ UNCHANGED <<ingredients, issuedIngredients, issuedFormulas, request,
                 response, queries, invoices, files, issuedUuids>>

\* the orders "ORDER BY rank DESC" may produce for the rows matching query
MatchingOrders(query) ==
  LET S == {f \in Stored(formulas) :
              TsMatch(search_vector(formulas[f]), plainto_tsquery(query))}
      n == Cardinality(S)
      rank(f) == ts_rank_cd(search_vector(formulas[f]), plainto_tsquery(query))
  IN { o \in [1..n -> S] :
         /\ \A i, j \in 1..n : i # j => o[i] # o[j]
         /\ \A i \in 1..(n - 1) : rank(o[i]) >= rank(o[i + 1]) }

\* FormulaRepository.search: the SELECT of the page
FormulaRepository_search_rows(w, query, page, size) ==
  /\ workers[w].pc = "free"
  /\ \E order \in MatchingOrders(query) :
       workers' = [workers EXCEPT ![w] =
         Call("FormulaRepository.search", "count", 0,
              FormulaPayload(query, NULL, Mapping_none, 0),
              (page - 1) * size, Page(order, size, (page - 1) * size),
              Absent, 0)]
  /\ UNCHANGED <<catalogue_vars, invoices, files, issuedUuids>>

\* FormulaRepository.search: the SELECT COUNT(*)
FormulaRepository_search_count(w) ==
  /\ At(w, "FormulaRepository.search", "count")
  /\ workers' =
       [workers EXCEPT ![w].pc = "done",
          ![w].total_count =
            Cardinality({f \in Stored(formulas) :
              TsMatch(search_vector(formulas[f]),
                      plainto_tsquery(workers[w].payload.name))})]
  /\ UNCHANGED <<catalogue_vars, invoices, files, issuedUuids>>

ConcurrentNext ==
  \/ \E w \in Workers : create_ingredient_insert(w, T_oil, T_ml)
  \/ \E w \in Workers, id \in IngredientIds : delete_ingredient_select(w, id)
  \/ \E w \in Workers : delete_ingredient_count(w)
  \/ \E w \in Workers : delete_ingredient_delete(w)
  \/ \E w \in Workers, payload \in ConcurrentFormulaInputs :
       create_formula_insert(w, payload)
  \/ \E w \in Workers, id \in FormulaIds, payload \in ConcurrentFormulaInputs :
       update_formula_select(w, id, payload)
  \/ \E w \in Workers : update_formula_update(w)
  \/ \E w \in Workers, id \in FormulaIds : delete_formula_select(w, id)
  \/ \E w \in Workers : delete_formula_delete(w)
  \/ \E w \in Workers, page \in 1..MaxPage, size \in 1..MaxSize :
       FormulaRepository_search_rows(w, T_tea, page, size)
  \/ \E w \in Workers : FormulaRepository_search_count(w)
  \/ \E w \in Workers : respond(w)

ConcurrentSpec == Init /\ [][ConcurrentNext]_vars


(***************************************************************************)
(* Vocabulary of the properties.                                           *)
(***************************************************************************)
Ceil(a, b) == IF a % b = 0 THEN a \div b ELSE (a \div b) + 1

Offset(page, size) == (page - 1) * size

\* how many of n ranked rows land on the page
OnPage(n, page, size) ==
  IF n <= Offset(page, size) THEN 0
  ELSE Min({size, n - Offset(page, size)})

TextSearchMatches(f, q) ==
  TsMatch(search_vector(formulas[f]), plainto_tsquery(q))

TextSearchRank(f, q) ==
  ts_rank_cd(search_vector(formulas[f]), plainto_tsquery(q))

NameSimilarity(f, q) == similarity(formulas[f].name, q)
DescriptionSimilarity(f, q) == similarity(formulas[f].description, q)
NameDistance(f, q) == levenshtein(sql_lower(formulas[f].name), sql_lower(q))
DescriptionDistance(f, q) ==
  levenshtein(sql_lower(formulas[f].description), sql_lower(q))

\* the five ways a formula qualifies for a fuzzy search
FuzzyIncluded(f, q, fuzzy) ==
  \/ TextSearchMatches(f, q)
  \/ SimilarityAbove(NameSimilarity(f, q), fuzzy.similarity_threshold)
  \/ SimilarityAbove(DescriptionSimilarity(f, q), fuzzy.similarity_threshold)
  \/ WithinDistance(NameDistance(f, q), fuzzy.max_distance)
  \/ WithinDistance(DescriptionDistance(f, q), fuzzy.max_distance)

FuzzyScore(f, q) ==
  Max({ TextSearchRank(f, q), SimilarityScore(NameSimilarity(f, q)),
        SimilarityScore(DescriptionSimilarity(f, q)) })

\* the formulas a search of the request's mode is to select
Included(q, fuzzy) ==
  IF fuzzy = NoFuzzy
  THEN {f \in Stored(formulas) : TextSearchMatches(f, q)}
  ELSE {f \in Stored(formulas) : FuzzyIncluded(f, q, fuzzy)}

NonIncreasing(seq, Key(_)) ==
  \A i \in 1..(Len(seq) - 1) : Key(seq[i]) >= Key(seq[i + 1])

IsFormulaSearch == request.op = "search_formulas" /\ Truthy(request.q)
IsPlainSearch == IsFormulaSearch /\ request.fuzzy = NoFuzzy
IsFuzzySearch == IsFormulaSearch /\ request.fuzzy # NoFuzzy

(***************************************************************************)
(* C1.  DELETE /api/v1/ingredients/{id} on a stored ingredient: when some  *)
(* stored formula's mapping has the id, the client gets a 4xx error and    *)
(* the ingredient stays; when none has it, the request succeeds and the    *)
(* ingredient is gone.                                                     *)
(***************************************************************************)
C1_DeleteBlockedByReference ==
  [][ (Accepting /\ request'.op = "delete_ingredient"
         /\ request'.id \in Stored(ingredients))
      => IF Referenced(request'.id)
         THEN IsClientError(response') /\ request'.id \in Stored(ingredients')
         ELSE IsSuccess(response') /\ request'.id \notin Stored(ingredients')
    ]_vars

(***************************************************************************)
(* C2.  No step of any operation removes an ingredient that a stored       *)
(* formula references at that moment.                                      *)
(***************************************************************************)
C2_NoReferencedIngredientRemoved ==
  [][ \A i \in Stored(ingredients) :
        i \notin Stored(ingredients') => ~Referenced(i) ]_vars

(***************************************************************************)
(* C3.  A formula search without fuzzy configuration succeeds; every       *)
(* returned formula matches the text-search predicate, the rows are in     *)
(* non-increasing rank order, and with no match the page is empty.         *)
(***************************************************************************)
C3_PlainSearchRanked ==
  IsPlainSearch =>
    LET RankOf(f) == TextSearchRank(f, request.q) IN
    /\ IsSuccess(response)
    /\ \A i \in 1..Len(response.data) :
         TextSearchMatches(response.data[i], request.q)
    /\ NonIncreasing(response.data, RankOf)
    /\ (Included(request.q, NoFuzzy) = {} => response.data = << >>)

(***************************************************************************)
(* C4.  A fuzzy formula search returns a stored formula, on some page, if  *)
(* and only if it qualifies in one of the five ways: the page holds only   *)
(* qualifying formulas, and as many as the qualifying set leaves for it.   *)
(***************************************************************************)
C4_FuzzyInclusion ==
  IsFuzzySearch =>
    LET S == Included(request.q, request.fuzzy) IN
    /\ IsSuccess(response)
    /\ Range(response.data) \subseteq S
    /\ Len(response.data) = OnPage(Cardinality(S), request.page, request.size)

(***************************************************************************)
(* C5.  A fuzzy formula search returns its rows in non-increasing order of *)
(* the score max(text-search rank, name similarity, description            *)
(* similarity).                                                            *)
(***************************************************************************)
C5_FuzzyScoreOrder ==
  IsFuzzySearch =>
    LET ScoreOf(f) == FuzzyScore(f, request.q) IN
    /\ IsSuccess(response)
    /\ NonIncreasing(response.data, ScoreOf)

(***************************************************************************)
(* C6.  The fuzzy search q = "chamomile", threshold 0.3, max distance 2    *)
(* returns the stored formula named "Chamomlie Tea": its name is within    *)
(* the edit distance of the query although the text search does not match. *)
(***************************************************************************)
C6_ChamomlieTeaReturned ==
  \A f \in Stored(formulas) :
    ( /\ IsFuzzySearch
      /\ request.q = T_chamomile
      /\ request.fuzzy = [similarity_threshold |-> 300, max_distance |-> 2]
      /\ request.page = 1
      /\ Cardinality(Included(request.q, request.fuzzy)) <= request.size
      /\ formulas[f].name = T_chamomlie_tea )
    => /\ f \in Range(response.data)
       /\ WithinDistance(NameDistance(f, request.q), request.fuzzy.max_distance)
       /\ ~TextSearchMatches(f, request.q)

(***************************************************************************)
(* C7.  A search (of ingredients or of formulas) with a query and a size   *)
(* of at least 1 succeeds with page_count = ceil(total_count / size), and  *)
(* a page beyond page_count comes back empty.                              *)
(***************************************************************************)
IsIngredientSearch ==
  /\ request.op = "search_ingredients"
  /\ Truthy(Or(request.q, request.search))
  /\ request.size >= 1

C7_PageCount(is_search) ==
  is_search =>
    /\ IsSuccess(response)
    /\ response.page_count = Ceil(response.total_count, request.size)
    /\ (request.page > response.page_count => response.data = << >>)

C7_SearchPagination ==
  /\ C7_PageCount(IsIngredientSearch)
  /\ C7_PageCount(IsFormulaSearch)

(***************************************************************************)
(* C8.  The total_count of a formula search is the number of stored        *)
(* formulas that the search of the same mode selects, whatever the page    *)
(* and size.                                                               *)
(***************************************************************************)
C8_TotalCountMatchesSelection ==
  IsFormulaSearch =>
    response.total_count = Cardinality(Included(request.q, request.fuzzy))

(***************************************************************************)
(* C9.  With include=ingredients a formula search carries, next to the     *)
(* formulas, exactly the stored ingredients whose ids are keys of the      *)
(* mappings of the formulas on the returned page.                          *)
(***************************************************************************)
C9_IncludedIngredients ==
  (IsFormulaSearch /\ request.include = "ingredients") =>
    /\ IsSuccess(response)
    /\ response.has_included
    /\ response.included =
         IngredientIdsOf(response.data) \cap Stored(ingredients)

(***************************************************************************)
(* C10.  A formula or ingredient search whose query is missing or empty    *)
(* is answered with a 4xx error without executing any statement.           *)
(***************************************************************************)
HasNoQuery ==
  \/ request.op = "search_formulas" /\ ~Truthy(request.q)
  \/ request.op = "search_ingredients"
       /\ ~Truthy(Or(request.q, request.search))

C10_EmptyQueryRejected ==
  HasNoQuery => (IsClientError(response) /\ queries = 0)

(***************************************************************************)
(* Vocabulary of the invoice properties.                                   *)
(***************************************************************************)
IsCreate(w) == workers[w].op = "create_invoice"
IsDelete(w) == workers[w].op = "InvoiceRepository.delete"
InsertFailed(w) == IsCreate(w) /\ workers[w].exc = "OperationalError"

C12_StoredInvoiceHasFile ==
  \A i \in Stored(invoices) : invoices[i].pdf_path \in files

C12_Witness ==
  /\ Stored(invoices) # {}
  /\ \E w \in Workers :
       IsDelete(w) /\ workers[w].pc = "done" /\ workers[w].pdf_path # 0
  /\ \E i \in Stored(invoices) : invoices[i].supplier = "bolt"

(***************************************************************************)
(* C13.  An invoice deletion attempts the file only after the row is gone; *)
(* a failed file removal does not leave the call as an exception, and      *)
(* whenever the deletion of an invoice it found returns, the row is        *)
(* absent.                                                                 *)
(***************************************************************************)
C13_DeleteRowFirst ==
  \A w \in Workers :
    IsDelete(w) =>
      /\ workers[w].pc = "remove" => workers[w].id \notin Stored(invoices)
      /\ workers[w].exc = "PermissionError" => ~workers[w].raised
      /\ (workers[w].pc = "done" /\ ~workers[w].raised
            /\ workers[w].pdf_path # 0)
           => workers[w].id \notin Stored(invoices)

C13_Witness ==
  \E w \in Workers :
    /\ IsDelete(w)
    /\ workers[w].pc = "done"
    /\ workers[w].exc = "PermissionError"
    /\ workers[w].pdf_path \in files
    /\ workers[w].id \notin Stored(invoices)

(***************************************************************************)
(* C14.  Two invoice creations in flight never work on the same path, and  *)
(* the file a creation has written stays in place while its INSERT is      *)
(* pending, whatever the other creation does, its cleanup included.        *)
(***************************************************************************)
C14_ConcurrentCreatesDistinctFiles ==
  /\ \A v, w \in Workers :
       (v # w /\ IsCreate(v) /\ IsCreate(w) /\ workers[v].pdf_path # 0
          /\ workers[w].pdf_path # 0)
       => workers[v].pdf_path # workers[w].pdf_path
  /\ \A w \in Workers :
       At(w, "create_invoice", "insert") => workers[w].pdf_path \in files

C14_Witness ==
  \E v, w \in Workers :
    /\ At(v, "create_invoice", "insert")
    /\ InsertFailed(w)
    /\ workers[w].pdf_path # 0

(***************************************************************************)
(* Names, trimming and stored mappings.                                    *)
(***************************************************************************)
HasName(table, name) == \E k \in DOMAIN table : table[k].name = name

CatalogueUnchanged == ingredients' = ingredients /\ formulas' = formulas

\* a create request is accepted in this step with a payload that passes the
\* schema and whose trimmed name a stored record of its table carries
DuplicateIngredientCreate ==
  /\ Accepting
  /\ request'.op = "create_ingredient"
  /\ ValidName(request'.name) /\ ValidName(request'.unit)
  /\ HasName(ingredients, strip(request'.name))

DuplicateFormulaCreate ==
  /\ Accepting
  /\ request'.op = "create_formula"
  /\ ValidName(request'.payload.name)
  /\ HasName(formulas, strip(request'.payload.name))

Trimmed(s) ==
  LET kept == {i \in 1..Len(s) : ~IsSpace(s[i])}
  IN IF kept = {} THEN << >> ELSE SubSeq(s, Min(kept), Max(kept))

\* the ingredient payloads of the request accepted in this step, in order
SubmittedIngredients ==
  IF request'.op = "bulk_create_ingredients" THEN request'.items
  ELSE <<[name |-> request'.name, unit |-> request'.unit]>>

IngredientWrite ==
  /\ Accepting
  /\ request'.op \in {"create_ingredient", "update_ingredient",
                      "bulk_create_ingredients"}

\* C16: when a create (single or bulk) or an update of ingredients succeeds,
\* each returned record carries the submitted name and unit without their
\* surrounding whitespace, both non-empty, and the stored record of its id
\* carries the same; a request with a name or unit that is empty after
\* trimming is rejected with a client error and stores nothing.
C16_TrimmedIngredient ==
  [][ IngredientWrite =>
        LET items == SubmittedIngredients
        IN /\ (\E i \in 1..Len(items) :
                  Trimmed(items[i].name) = << >> \/ Trimmed(items[i].unit) = << >>)
                => IsClientError(response') /\ CatalogueUnchanged
           /\ IsSuccess(response') =>
                /\ Len(response'.data) = Len(items)
                /\ \A i \in 1..Len(items) :
                     LET r == response'.data[i]
                     IN /\ r.name = Trimmed(items[i].name)
                        /\ r.unit = Trimmed(items[i].unit)
                        /\ r.name # << >> /\ r.unit # << >>
                        /\ r.id \in Stored(ingredients')
                        /\ ingredients'[r.id] = [name |-> r.name, unit |-> r.unit]
    ]_vars

\* a bulk create of two ingredients, one submitted with surrounding spaces,
\* has succeeded
C16_Witness ==
  /\ request.op = "bulk_create_ingredients"
  /\ IsSuccess(response)
  /\ Len(request.items) = 2
  /\ \E i \in 1..2 : request.items[i].name # Trimmed(request.items[i].name)

\* the entries name pairwise distinct ingredients: the list is a mapping
IsMapping(entries) ==
  \A i, j \in 1..Len(entries) : entries[i].id = entries[j].id => i = j

FormulaCreated ==
  /\ Accepting
  /\ request'.op = "create_formula"
  /\ IsSuccess(response')

Pairs(mapping) == {Entry(k, mapping[k]) : k \in DOMAIN mapping}

\* C18: the formula listing succeeds and returns each stored formula once,
\* and the relationship entries of each listed formula are exactly the
\* (ingredient id, percentage) pairs of its stored mapping, also for ids
\* whose ingredient is no longer stored.
C18_ListingExpandsMapping ==
  request.op = "get_formulas" =>
    /\ IsSuccess(response)
    /\ Len(response.data) = Cardinality(Stored(formulas))
    /\ {response.data[i].id : i \in 1..Len(response.data)} = Stored(formulas)
    /\ \A i \in 1..Len(response.data) :
         LET listed == response.data[i]
             stored == formulas[listed.id].ingredients
         IN /\ Range(listed.relationships) = Pairs(stored)
            /\ Len(listed.relationships) = Cardinality(DOMAIN stored)

\* an update or a delete of one record is accepted in this step, with a
\* payload that passes the schema, for an id its table does not hold
MissingIngredientWrite ==
  /\ Accepting
  /\ \/ request'.op = "delete_ingredient"
     \/ /\ request'.op = "update_ingredient"
        /\ ValidName(request'.name) /\ ValidName(request'.unit)
  /\ request'.id \notin Stored(ingredients)

MissingFormulaWrite ==
  /\ Accepting
  /\ \/ request'.op = "delete_formula"
     \/ /\ request'.op = "update_formula"
        /\ ValidName(request'.payload.name)
  /\ request'.id \notin Stored(formulas)

\* C19: an update or a delete of an ingredient or a formula whose id is
\* not stored is answered 404, and the stored ingredients and formulas are
\* the same after the request as before.
C19_MissingIdNotFound ==
  [][ MissingIngredientWrite \/ MissingFormulaWrite
        => response'.status = 404 /\ CatalogueUnchanged ]_vars

FormulaDeleted ==
  /\ Accepting
  /\ request'.op = "delete_formula"
  /\ IsSuccess(response')

\* C20: a successful delete of a formula removes that formula and leaves
\* every other formula and every ingredient as it was; from then on a GET
\* of a formula id that is not stored is answered 404, the repository's
\* get_by_id returns None for it, and the listing contains stored formulas
\* only.
C20_DeleteFormulaFrame ==
  [][ /\ FormulaDeleted =>
           /\ formulas' = Without(formulas, {request'.id})
           /\ request'.id \in Stored(formulas)
           /\ ingredients' = ingredients
      /\ Accepting /\ request'.op = "get_formula"
           /\ request'.id \notin Stored(formulas)
           => response'.status = 404
      /\ Accepting /\ request'.op = "FormulaRepository.get_by_id"
           /\ request'.id \notin Stored(formulas)
           => response'.data = <<None>>
      /\ Accepting /\ request'.op = "get_formulas" =>
           \A i \in 1..Len(response'.data) :
             response'.data[i].id \in Stored(formulas)
    ]_vars

(***************************************************************************)
(* Formula payloads that name an ingredient no record has.                 *)
(***************************************************************************)
UnknownIngredientCreate ==
  /\ Accepting
  /\ request'.op = "create_formula"
  /\ ValidName(request'.payload.name)
  /\ EntryIds(request'.payload.ingredients) \ Stored(ingredients) # {}

\* C21: a create of a formula whose entries name an ingredient id that is
\* not stored is answered 400 and stores no formula.
C21_UnknownIngredientRejected ==
  [][ UnknownIngredientCreate
        => response'.status = 400 /\ formulas' = formulas ]_vars

(***************************************************************************)
(* Failure classes and error responses.                                    *)
(***************************************************************************)
ExpectedStatus(exc) ==
  CASE exc = "OperationalError" -> 503
    [] exc = "DataError" -> 400
    [] exc \in {"IntegrityError", "UniqueViolation"} -> 409
    [] exc = "ProgrammingError" -> 500
    [] exc = "FileNotFoundError" -> 404
    [] exc = "PermissionError" -> 403
    [] exc \in {"OSError", "IsADirectoryError"} -> 500
    [] exc = "JSONDecodeError" -> 400
    [] OTHER -> 500

DatabaseClasses ==
  {"OperationalError", "DataError", "IntegrityError", "UniqueViolation",
   "ProgrammingError"}

IsErrorResponse ==
  request.op \in {"handle_database_error", "utils.handle_database_error",
                  "HTTPException", "Exception"}

\* the number a string of decimal digits writes
RECURSIVE Value(_)
Value(digits) ==
  IF digits = << >> THEN 0
  ELSE 10 * Value(SubSeq(digits, 1, Len(digits) - 1)) + digits[Len(digits)]

\* C24: a response made by http_exception_handler or by
\* general_exception_handler has exactly one error entry, whose status
\* writes the HTTP status code and whose error_id is an identifier that was
\* generated; if the detail of the HTTPException carries the error_id its
\* handler logged, the entry carries that identifier.
C24_ErrorEntry ==
  IsErrorResponse =>
    /\ Len(response.errors) = 1
    /\ Value(response.errors[1].status) = response.status_code
    /\ response.errors[1].error_id \in 1..issuedUuids
    /\ request.op = "HTTPException" /\ request.detail.dict
         /\ request.detail.has_error_id
         => response.errors[1].error_id = request.logged

\* an HTTPException whose detail carries the handler's error_id has been
\* answered with that identifier
C24_Witness ==
  /\ request.op = "HTTPException"
  /\ request.detail.dict /\ request.detail.has_error_id
  /\ response.errors[1].error_id = request.logged
  /\ response.status_code = 400

HasUnderlyingException ==
  request.op \in {"handle_database_error", "utils.handle_database_error",
                  "Exception"}

Visible(r) ==
  [status |-> r.status_code, title |-> r.errors[1].title,
   detail |-> r.errors[1].detail]

\* the response to the request of this state had its exception carried
\* the message m
ResponseWith(m) ==
  LET e == Raise(request.exc, 0, m)
  IN CASE request.op = "handle_database_error" ->
            Handled(handle_database_error(e), 0)
       [] request.op = "utils.handle_database_error" ->
            Handled(utils_handle_database_error(e), 0)
       [] OTHER -> Handled(e, 0)

\* C25: the status, title and detail of the response to a database or
\* filesystem exception are those the same request gets with any other
\* message of the same exception class, and the detail is never the
\* message of the exception.
C25_MessageNotLeaked ==
  HasUnderlyingException =>
    /\ \A m \in MessageInputs : Visible(response) = Visible(ResponseWith(m))
    /\ response.errors[1].detail # request.message

\* an exception that no case classifies has reached
\* general_exception_handler and been answered 500
C25_Witness ==
  /\ request.op = "handle_database_error"
  /\ request.exc = "ValueError"
  /\ request.message = "duplicate key value: name=oil"
  /\ response.status_code = 500

\* worker w takes a POST /api/v1/invoices in this step whose ingredients
\* field json.loads refuses
MalformedIngredients(w) ==
  /\ workers[w].pc = "free"
  /\ workers'[w].op = "create_invoice"
  /\ workers'[w].exc = "JSONDecodeError"

\* C23: a POST /api/v1/invoices whose ingredients field is not valid JSON
\* is answered 400, and the request writes no file and inserts no row.
C23_MalformedJsonRejected ==
  [][ \A w \in Workers :
        MalformedIngredients(w) =>
          /\ workers'[w].pc = "done"
          /\ workers'[w].status = 400
          /\ files' = files
          /\ invoices' = invoices ]_vars

(***************************************************************************)
(* Bulk requests.                                                          *)
(***************************************************************************)
BulkRequest ==
  /\ Accepting
  /\ request'.op \in {"bulk_create_ingredients", "bulk_update_ingredients",
                      "bulk_delete_ingredients"}

BulkDelete == Accepting /\ request'.op = "bulk_delete_ingredients"

\* the ingredient records this step removes from the store
Removed == Stored(ingredients) \ Stored(ingredients')

\* C30: a bulk delete answered with a success reports as deleted_count the
\* number of ingredient records the request removed, also when the payload
\* lists an id more than once; a bulk delete that lists an id not in the
\* store removes no ingredient.
C30_DeletedCountIsRemoved ==
  [][ BulkDelete =>
        /\ IsSuccess(response') =>
             response'.deleted_count = Cardinality(Removed)
        /\ ~(Range(request'.ids) \subseteq Stored(ingredients)) =>
             ingredients' = ingredients ]_vars

(***************************************************************************)
(* The statement builders on their own.  build_search_query and            *)
(* build_count_query only read params.q, params.page, params.size and, in  *)
(* fuzzy mode, params.fuzzy; they are applied here to parameters that      *)
(* carry a fuzzy configuration.                                            *)
(***************************************************************************)
FuzzyConfigs ==
  { [similarity_threshold |-> t, max_distance |-> d] :
      t \in {100, 300}, d \in {1, 2} }

BuilderParams ==
  { [q |-> q, page |-> page, size |-> size, fuzzy |-> fuzzy] :
      q \in {T_tea, T_mint_tea}, page \in 1..MaxPage, size \in 1..MaxSize,
      fuzzy \in FuzzyConfigs }

call_build_search_query(params, is_fuzzy) ==
  /\ request' = [op |-> "build_search_query", params |-> params,
                 is_fuzzy |-> is_fuzzy]
  /\ response' = build_search_query(params, is_fuzzy)
  /\ UNCHANGED <<table_vars, invoice_vars>>

call_build_count_query(params, is_fuzzy) ==
  /\ request' = [op |-> "build_count_query", params |-> params,
                 is_fuzzy |-> is_fuzzy]
  /\ response' = build_count_query(params, is_fuzzy)
  /\ UNCHANGED <<table_vars, invoice_vars>>

BuilderNext ==
  \/ \E params \in BuilderParams, is_fuzzy \in BOOLEAN :
       call_build_search_query(params, is_fuzzy)
  \/ \E params \in BuilderParams, is_fuzzy \in BOOLEAN :
       call_build_count_query(params, is_fuzzy)

BuilderSpec == Init /\ [][BuilderNext]_vars

\* the value the statement needs at a placeholder
Expected(slot, params) ==
  IF slot \in TextSlots THEN Text(params.q)
  ELSE IF slot \in {"where_name_threshold", "where_desc_threshold"}
  THEN Num(params.fuzzy.similarity_threshold)
  ELSE IF slot \in {"where_name_max_distance", "where_desc_max_distance"}
  THEN Num(params.fuzzy.max_distance)
  ELSE IF slot = "limit" THEN Num(params.size)
  ELSE Num((params.page - 1) * params.size)

\* C29: in fuzzy mode each builder returns as many parameters as its
\* statement has placeholders, and the parameter at each placeholder is the
\* value that placeholder needs: the query string at every text argument,
\* similarity_threshold at both similarity comparisons, max_distance at
\* both edit-distance comparisons, size at LIMIT and (page-1)*size at
\* OFFSET.
C29_FuzzyParametersMatchPlaceholders ==
  request.op \in {"build_search_query", "build_count_query"} /\ request.is_fuzzy
    => /\ Len(response.params) = Len(response.slots)
       /\ \A i \in 1..Len(response.slots) :
            response.params[i] = Expected(response.slots[i], request.params)

(***************************************************************************)
(* Requests in flight at the same time.                                    *)
(***************************************************************************)
\* worker w executes the DELETE of a delete_ingredient in this step
DeletesIngredient(w) ==
  /\ At(w, "delete_ingredient", "delete")
  /\ workers'[w].pc = "done"

\* C27: the reference check and the DELETE of delete_ingredient act as one
\* step with respect to the formula writes of other requests: when the
\* DELETE runs, no stored formula references the ingredient, so no
\* interleaving leaves a formula that references the ingredient this
\* request deleted.
C27_DeleteCheckAtomic ==
  [][ \A w \in Workers :
        DeletesIngredient(w) =>
          /\ ~Referenced(workers[w].id)
          /\ \A f \in Stored(formulas') :
               ~HasKey(formulas'[f].ingredients, workers[w].id) ]_vars

\* C28: the total_count FormulaRepository.search returns is at least the
\* offset of its page plus the number of rows of the page, when the page
\* has rows, whatever formula writes run at the same time.
C28_TotalCoversPage ==
  \A w \in Workers :
    At(w, "FormulaRepository.search", "done") /\ workers[w].rows # << >>
      => workers[w].total_count >= workers[w].offset + Len(workers[w].rows)

====
